---- MODULE Spec2Model ----
(***************************************************************************)
(* State-machine model of the DROSS Command Center client                  *)
(* (src/static/script.js): the reconnecting WebSocket channel, the         *)
(* dispatch of inbound events into the chat window, the log console and    *)
(* the thought stream, the status poll with its memory-count change        *)
(* detector, and the additive graph merge into the vis.DataSet pair        *)
(* graphData.  The inbound path of the Ether dashboard script              *)
(* (src/unnamed/part_001), whose dispatcher also knows the tool_start      *)
(* event, is modelled beside it in the variable ether.                     *)
(*                                                                         *)
(* One action models one callback of the event loop (a WebSocket event, a  *)
(* timer, a click, the resolution of a fetch); callbacks run to            *)
(* completion, so each is one atomic step.  The backend and the transport  *)
(* are the environment: what they answer is chosen with \E.                *)
(***************************************************************************)
EXTENDS Integers, Sequences, FiniteSets

(***************************************************************************)
(* Program constants.                                                      *)
(***************************************************************************)
BaseDelay == 1000
CapDelay == 30000
LogCap == 200
ThoughtCap == 20
StreamCap == 50      \* Ether: children kept by addStreamLine
PreviewLen == 30     \* Ether: characters of the serialized arguments shown

(***************************************************************************)
(* Bounds of the model.                                                    *)
(***************************************************************************)
MaxSockets == 7      \* connection attempts (WebSocket objects) ever made
MaxInFlight == 2     \* requests awaiting their response at one time
MaxCount == 2        \* largest memory_count the backend reports
MaxNodeId == 2       \* node ids are 1..MaxNodeId
MaxEdges == 2        \* longest edges array of one graph response
MaxEvents == 2       \* inbound payloads of every kind delivered in one run
MaxLines == 203      \* inbound log events delivered in one run of SpecBuffers
MaxArgChars == 29    \* longest string given as the args of a tool_start event
MaxSends == 2        \* calls of sendMessage in one run
MaxChatSockets == 2  \* connection attempts in one run of SpecChat
MaxChatEvents == 1   \* inbound payloads in one run of SpecChat

VARIABLES
    sockets,          \* every WebSocket created, by readyState; ws is the last
    reconnectDelay,   \* let reconnectDelay
    reconnectTimer,   \* let reconnectTimer: 0 for null, else the last timer id
    timers,           \* pending setTimeout callbacks: [id, delay]
    timerSeq,         \* ids handed out by setTimeout so far
    statusText,       \* els.statusText.innerText
    connectionDot,    \* els.connectionDot.className
    logConsole,       \* els.logConsole.children
    statusInFlight,   \* fetchStatus calls awaiting /api/status
    lastMemoryCount,  \* let lastMemoryCount
    memoryCountText,  \* els.memoryCount.innerText
    goalTitle,        \* els.goalTitle.innerText
    activeView,       \* the .view element holding class "active"
    graphInFlight,    \* loadGraph calls awaiting /api/memory/graph, by force
    wipeInFlight,     \* POST /api/memory/clear requests awaiting their response
    network,          \* let network: FALSE for null
    graphNodes,       \* graphData.nodes: the ids held by the DataSet
    graphEdges,       \* graphData.edges: the items held, in insertion order
    schedDelays,      \* history: delays passed to setTimeout since the last open
    failuresBeforeOpen, \* history: closes in a row before the last open, -1 if none yet
    connectPending,   \* history: timers pending when connectWebSocket last began
    lastPass,         \* history: the last graph response applied, or dropped
                      \*          with items the state lacks
    statusSeen,       \* history: a status snapshot has been processed
    chatWindow,       \* els.chatWindow.children
    thoughtStream,    \* els.thoughtStream.children, first child first
    activeTab,        \* the .panel-content element holding class "active"
    journalInFlight,  \* loadJournal calls awaiting /api/journal
    journalFeed,      \* els.journalFeed: what loadJournal rendered last
    transportUp,      \* environment: the transport fails no more from now on
    inbound,          \* history: the payloads delivered to ws.onmessage
    logHistory,       \* history: every line passed to addLog
    thoughtHistory,   \* history: every text passed to addThought
    ether,            \* the Ether dashboard: socket, orb, labels, streams
    userInput,        \* els.userInput.value
    outbound,         \* the texts given to ws.send, each with its socket
    sendAttempts,     \* history: calls of sendMessage so far
    resetInFlight,    \* POST /api/reset requests awaiting their response
    statusFetches,    \* history: the fetchStatus calls in flight, oldest first
    lastStatus,       \* history: the status response applied last
    passCounts,       \* history: the counts that have triggered a forced pass
    journalFetches    \* history: the loadJournal calls in flight, oldest first:
                      \*          TRUE for those a refresh_journal event made

connVars == <<sockets, reconnectDelay, reconnectTimer, timers, timerSeq,
              statusText, connectionDot, logConsole>>
statusVars == <<statusInFlight, lastMemoryCount, memoryCountText, goalTitle>>
graphVars == <<graphInFlight, wipeInFlight, network, graphNodes, graphEdges>>
histVars == <<schedDelays, failuresBeforeOpen, connectPending, lastPass, statusSeen>>
uiVars == <<chatWindow, thoughtStream, activeTab, journalInFlight, journalFeed>>
wireVars == <<transportUp, inbound>>
dispVars == <<uiVars, wireVars, thoughtHistory, ether>>
chatVars == <<userInput, outbound, sendAttempts>>
auditVars == <<lastStatus, passCounts, journalFetches>>
vars == <<connVars, statusVars, activeView, graphVars, histVars, logHistory,
          dispVars, chatVars, resetInFlight, statusFetches, auditVars>>

Min(a, b) == IF a < b THEN a ELSE b

RECURSIVE Pow2(_)
Pow2(n) == IF n = 0 THEN 1 ELSE 2 * Pow2(n - 1)

Range(s) == {s[i] : i \in 1..Len(s)}

\* Requests of every kind awaiting their response.
InFlight ==
    statusInFlight + graphInFlight[TRUE] + graphInFlight[FALSE] + wipeInFlight
        + journalInFlight + resetInFlight

\* A fetchStatus call in flight: whether a refresh_status event made it, and
\* the count of the last response to a call of the other origin that has
\* been applied since it began (-1 if none).
StatusFetch(byEvent) == [byEvent |-> byEvent, sawOther |-> -1]

RemoveAt(seq, i) == SubSeq(seq, 1, i - 1) \o SubSeq(seq, i + 1, Len(seq))

\* The calls left in flight once the response of the i-th, reporting count,
\* has been applied.
AfterResponse(i, count) ==
    LET left == RemoveAt(statusFetches, i)
    IN  [j \in 1..Len(left) |->
            IF left[j].byEvent # statusFetches[i].byEvent
            THEN [left[j] EXCEPT !.sawOther = count]
            ELSE left[j]]

(***************************************************************************)
(* Core UI functions.                                                      *)
(***************************************************************************)
\* A log line of the client itself: the fixed text and the number
\* interpolated into it (0 if none).  The "[time]" prefix addLog puts before
\* the text is left out.
LogLine(text, arg) == [text |-> text, arg |-> arg, content |-> <<>>]

\* Mutant of addLog: the child dropped is the one just appended.
addLog_DropsNewest(log, line) ==
    LET appended == Append(log, line)
    IN  IF Len(appended) > LogCap THEN SubSeq(appended, 1, LogCap) ELSE appended

\* addLog: append, then drop first children while more than LogCap are held.
addLog(log, line) ==
    LET appended == Append(log, line)
    IN  IF Len(appended) > LogCap
        THEN SubSeq(appended, Len(appended) - LogCap + 1, Len(appended))
        ELSE appended

\* An inbound text is a sequence of tokens: white space, a line terminator,
\* the two fixed words the heartbeat pattern looks for, and any other word
\* (told apart by a number).  Br is the "<br>" addMessage writes.
Sp == [k |-> "space", n |-> 0]
Nl == [k |-> "newline", n |-> 0]
Hb == [k |-> "Heartbeat:", n |-> 0]
Au == [k |-> "Autonomy:", n |-> 0]
Br == [k |-> "<br>", n |-> 0]
Word(n) == [k |-> "word", n |-> n]

\* What \s matches, and what trim() strips.
IsSpace(t) == t.k \in {"space", "newline"}

\* The line addLog(data.content) makes of an inbound text.
EventLine(content) == [text |-> "", arg |-> 0, content |-> content]

\* String.prototype.trim
RECURSIVE TrimLeft(_)
TrimLeft(c) == IF c # <<>> /\ IsSpace(Head(c)) THEN TrimLeft(Tail(c)) ELSE c

RECURSIVE TrimRight(_)
TrimRight(c) ==
    IF c # <<>> /\ IsSpace(c[Len(c)])
    THEN TrimRight(SubSeq(c, 1, Len(c) - 1))
    ELSE c

Trim(c) == TrimRight(TrimLeft(c))

\* addMessage: a child holding the role and text.replace(/\n/g, "<br>").
addMessage(window, role, text) ==
    Append(window,
           [role |-> role,
            html |-> [i \in 1..Len(text) |-> IF text[i] = Nl THEN Br ELSE text[i]]])

\* Mutant of addThought: no child is ever dropped.
addThought_KeepsAll(stream, text) == <<text>> \o stream

\* Mutant of addThought: the child dropped is the newest one held before.
addThought_DropsNewest(stream, text) ==
    IF Len(stream) + 1 > ThoughtCap THEN <<text>> \o Tail(stream) ELSE <<text>> \o stream

\* addThought: prepend, then drop the last child if more than ThoughtCap
\* are held.
addThought(stream, text) ==
    LET prepended == <<text>> \o stream
    IN  IF Len(prepended) > ThoughtCap
        THEN SubSeq(prepended, 1, Len(prepended) - 1)
        ELSE prepended

(***************************************************************************)
(* Connection manager.                                                     *)
(***************************************************************************)
ws == Len(sockets)

\* new WebSocket(...): the handle ws now names a fresh CONNECTING socket.
connectWebSocket == sockets' = Append(sockets, "CONNECTING")

\* clearTimeout(id): the pending callback with that id, if any, is dropped.
clearTimeout(pending, id) == {t \in pending : t.id # id}

\* Mutant of WsOnOpen: the backoff is not reset.
WsOnOpen_NoReset(s) ==
    /\ sockets[s] = "CONNECTING"
    /\ InFlight < MaxInFlight
    /\ sockets' = [sockets EXCEPT ![s] = "OPEN"]
    /\ timers' = clearTimeout(timers, reconnectTimer)
    /\ logConsole' = addLog(logConsole, LogLine("SYSTEM: Uplink established.", 0))
    /\ logHistory' = Append(logHistory, LogLine("SYSTEM: Uplink established.", 0))
    /\ statusText' = "ONLINE"
    /\ connectionDot' = "status-indicator online"
    /\ statusInFlight' = statusInFlight + 1
    /\ statusFetches' = Append(statusFetches, StatusFetch(FALSE))
    /\ failuresBeforeOpen' = Len(schedDelays)
    /\ schedDelays' = <<>>
    /\ UNCHANGED <<chatVars, resetInFlight, auditVars,
                   reconnectDelay, reconnectTimer, timerSeq, lastMemoryCount,
                   memoryCountText, goalTitle, activeView, graphVars,
                   connectPending, lastPass, statusSeen, dispVars>>

\* Mutant of WsOnOpen: the status is left to the next poll.
WsOnOpen_NoFetch(s) ==
    /\ sockets[s] = "CONNECTING"
    /\ InFlight < MaxInFlight
    /\ sockets' = [sockets EXCEPT ![s] = "OPEN"]
    /\ reconnectDelay' = BaseDelay
    /\ timers' = clearTimeout(timers, reconnectTimer)
    /\ logConsole' = addLog(logConsole, LogLine("SYSTEM: Uplink established.", 0))
    /\ logHistory' = Append(logHistory, LogLine("SYSTEM: Uplink established.", 0))
    /\ statusText' = "ONLINE"
    /\ connectionDot' = "status-indicator online"
    /\ failuresBeforeOpen' = Len(schedDelays)
    /\ schedDelays' = <<>>
    /\ UNCHANGED <<chatVars, resetInFlight, statusFetches, auditVars,
                   reconnectTimer, timerSeq, statusVars, activeView, graphVars,
                   connectPending, lastPass, statusSeen, dispVars>>

\* ws.onopen
WsOnOpen(s) ==
    /\ sockets[s] = "CONNECTING"
    /\ InFlight < MaxInFlight
    /\ sockets' = [sockets EXCEPT ![s] = "OPEN"]
    /\ reconnectDelay' = BaseDelay
    /\ timers' = clearTimeout(timers, reconnectTimer)
    /\ logConsole' = addLog(logConsole, LogLine("SYSTEM: Uplink established.", 0))
    /\ logHistory' = Append(logHistory, LogLine("SYSTEM: Uplink established.", 0))
    /\ statusText' = "ONLINE"
    /\ connectionDot' = "status-indicator online"
    /\ statusInFlight' = statusInFlight + 1
    /\ statusFetches' = Append(statusFetches, StatusFetch(FALSE))
    /\ failuresBeforeOpen' = Len(schedDelays)
    /\ schedDelays' = <<>>
    /\ UNCHANGED <<chatVars, resetInFlight, auditVars,
                   reconnectTimer, timerSeq, lastMemoryCount, memoryCountText,
                   goalTitle, activeView, graphVars, connectPending, lastPass,
                   statusSeen, dispVars>>

\* Mutant of WsOnError: the error handler schedules a reconnection of its own.
WsOnError_Reconnects(s) ==
    /\ sockets[s] \in {"CONNECTING", "OPEN"}
    /\ sockets' = [sockets EXCEPT ![s] = "CLOSING"]
    /\ timerSeq' = timerSeq + 1
    /\ reconnectTimer' = timerSeq + 1
    /\ timers' = timers \cup {[id |-> timerSeq + 1, delay |-> reconnectDelay]}
    /\ UNCHANGED <<chatVars, resetInFlight, statusFetches, auditVars,
                   reconnectDelay, statusText, connectionDot, logConsole,
                   statusVars, activeView, graphVars, histVars,
                   logHistory, dispVars>>

\* Mutant of WsOnError: the error handler connects again at once.
WsOnError_Reopens(s) ==
    /\ sockets[s] \in {"CONNECTING", "OPEN"}
    /\ Len(sockets) < MaxSockets
    /\ sockets' = Append([sockets EXCEPT ![s] = "CLOSING"], "CONNECTING")
    /\ UNCHANGED <<chatVars, resetInFlight, statusFetches, auditVars,
                   reconnectDelay, reconnectTimer, timers, timerSeq, statusText,
                   connectionDot, logConsole, statusVars, activeView, graphVars,
                   histVars,
                   logHistory, dispVars>>

\* Mutant of WsOnError: the error handler shows the channel as lost.
WsOnError_MarksOffline(s) ==
    /\ sockets[s] \in {"CONNECTING", "OPEN"}
    /\ sockets' = [sockets EXCEPT ![s] = "CLOSING"]
    /\ statusText' = "OFFLINE"
    /\ UNCHANGED <<chatVars, resetInFlight, statusFetches, auditVars,
                   reconnectDelay, reconnectTimer, timers, timerSeq,
                   connectionDot, logConsole, statusVars, activeView, graphVars,
                   histVars, logHistory, dispVars>>

\* ws.onerror: the handler body is empty; the browser has failed the
\* connection, so the socket is CLOSING until its close event is delivered.
WsOnError(s) ==
    /\ sockets[s] \in {"CONNECTING", "OPEN"}
    /\ sockets' = [sockets EXCEPT ![s] = "CLOSING"]
    /\ UNCHANGED <<chatVars, resetInFlight, statusFetches, auditVars,
                   reconnectDelay, reconnectTimer, timers, timerSeq, statusText,
                   connectionDot, logConsole, statusVars, activeView, graphVars,
                   histVars,
                   logHistory, dispVars>>

\* Mutant of WsOnClose: after three closes in a row no reconnection is
\* scheduled any more.
WsOnClose_GivesUp(s) ==
    /\ sockets[s] \in {"CONNECTING", "OPEN", "CLOSING"}
    /\ sockets' = [sockets EXCEPT ![s] = "CLOSED"]
    /\ logConsole' = addLog(logConsole,
           LogLine("SYSTEM: Uplink lost. Reconnecting in", reconnectDelay \div 1000))
    /\ logHistory' = Append(logHistory,
           LogLine("SYSTEM: Uplink lost. Reconnecting in", reconnectDelay \div 1000))
    /\ statusText' = "OFFLINE"
    /\ connectionDot' = "status-indicator"
    /\ timerSeq' = timerSeq + 1
    /\ reconnectTimer' = timerSeq + 1
    /\ timers' = IF Len(schedDelays) < 3
                 THEN timers \cup {[id |-> timerSeq + 1, delay |-> reconnectDelay]}
                 ELSE timers
    /\ schedDelays' = Append(schedDelays, reconnectDelay)
    /\ UNCHANGED <<chatVars, resetInFlight, statusFetches, auditVars,
                   reconnectDelay, statusVars, activeView, graphVars,
                   failuresBeforeOpen, connectPending, lastPass, statusSeen,
                   dispVars>>

\* ws.onclose
WsOnClose(s) ==
    /\ sockets[s] \in {"CONNECTING", "OPEN", "CLOSING"}
    /\ sockets' = [sockets EXCEPT ![s] = "CLOSED"]
    /\ logConsole' = addLog(logConsole,
           LogLine("SYSTEM: Uplink lost. Reconnecting in", reconnectDelay \div 1000))
    /\ logHistory' = Append(logHistory,
           LogLine("SYSTEM: Uplink lost. Reconnecting in", reconnectDelay \div 1000))
    /\ statusText' = "OFFLINE"
    /\ connectionDot' = "status-indicator"
    /\ timerSeq' = timerSeq + 1
    /\ reconnectTimer' = timerSeq + 1
    /\ timers' = timers \cup {[id |-> timerSeq + 1, delay |-> reconnectDelay]}
    /\ schedDelays' = Append(schedDelays, reconnectDelay)
    /\ UNCHANGED <<chatVars, resetInFlight, statusFetches, auditVars,
                   reconnectDelay, statusVars, activeView, graphVars,
                   failuresBeforeOpen, connectPending, lastPass, statusSeen,
                   dispVars>>

\* Mutant of ReconnectTimerFire: the doubling is not capped.
ReconnectTimerFire_NoCap(t) ==
    /\ t \in timers
    /\ Len(sockets) < MaxSockets
    /\ timers' = timers \ {t}
    /\ reconnectDelay' = reconnectDelay * 2
    /\ connectPending' = Cardinality(timers \ {t})
    /\ connectWebSocket
    /\ UNCHANGED <<chatVars, resetInFlight, statusFetches, auditVars,
                   reconnectTimer, timerSeq, statusText, connectionDot, logConsole,
                   statusVars, activeView, graphVars, schedDelays,
                   failuresBeforeOpen, lastPass, statusSeen,
                   logHistory, dispVars>>

\* The callback given to setTimeout in ws.onclose.
ReconnectTimerFire(t) ==
    /\ t \in timers
    /\ Len(sockets) < MaxSockets
    /\ timers' = timers \ {t}
    /\ reconnectDelay' = Min(reconnectDelay * 2, CapDelay)
    /\ connectPending' = Cardinality(timers \ {t})
    /\ connectWebSocket
    /\ UNCHANGED <<chatVars, resetInFlight, statusFetches, auditVars,
                   reconnectTimer, timerSeq, statusText, connectionDot, logConsole,
                   statusVars, activeView, graphVars, schedDelays, failuresBeforeOpen,
                   lastPass, statusSeen,
                   logHistory, dispVars>>

(***************************************************************************)
(* Message dispatcher.                                                     *)
(***************************************************************************)
\* data.content.includes("Heartbeat:")
Includes(c, t) == \E i \in 1..Len(c) : c[i] = t

\* The match of /.*Heartbeat:\s*(Autonomy:\s*)?/ in a text that holds the
\* marker.  "." matches no line terminator, so the leftmost match begins
\* where the line of the first marker begins.
FirstMarker(c) ==
    CHOOSE i \in 1..Len(c) : c[i] = Hb /\ \A j \in 1..(i - 1) : c[j] # Hb

MatchStart(c) ==
    LET breaks == {j \in 1..(FirstMarker(c) - 1) : c[j] = Nl}
    IN  IF breaks = {} THEN 1
        ELSE (CHOOSE j \in breaks : \A x \in breaks : x <= j) + 1

\* ".*" is greedy: it runs to the last marker of that line.
LastMarkerOnLine(c) ==
    LET onLine == {q \in MatchStart(c)..Len(c) :
                      c[q] = Hb /\ \A j \in MatchStart(c)..(q - 1) : c[j] # Nl}
    IN  CHOOSE q \in onLine : \A x \in onLine : x <= q

\* \s*: the first index from i on that holds no white space.
RECURSIVE SkipSpace(_, _)
SkipSpace(c, i) ==
    IF i <= Len(c) /\ IsSpace(c[i]) THEN SkipSpace(c, i + 1) ELSE i

\* The first index after the match: white space, then "Autonomy:" and more
\* white space if it is there.
MatchEnd(c) ==
    LET a == SkipSpace(c, LastMarkerOnLine(c) + 1)
    IN  IF a <= Len(c) /\ c[a] = Au THEN SkipSpace(c, a + 1) ELSE a

\* data.content.replace(/.*Heartbeat:\s*(Autonomy:\s*)?/, "").trim():
\* what is left is the text before the match and the text after it.
HeartbeatThought(c) ==
    Trim(SubSeq(c, 1, MatchStart(c) - 1) \o SubSeq(c, MatchEnd(c), Len(c)))

\* data.status.toUpperCase()
toUpperCase(status) ==
    CASE status = "thinking" -> "THINKING"
      [] status = "speaking" -> "SPEAKING"
      [] status = "idle" -> "IDLE"
      [] OTHER -> status

\* What the transport may deliver: a payload JSON.parse rejects, or an event
\* with the fields of its type.
Malformed ==
    [parses |-> FALSE, type |-> "", content |-> <<>>, status |-> "",
     tool |-> "", args |-> <<>>]

Event(type) ==
    [parses |-> TRUE, type |-> type, content |-> <<>>, status |-> "",
     tool |-> "", args |-> <<>>]

ResponseEvent(content) == [Event("response") EXCEPT !.content = content]
StatusEvent(status) == [Event("status") EXCEPT !.status = status]
LogEvent(content) == [Event("log") EXCEPT !.content = content]
ToolStartEvent(tool, args) == [Event("tool_start") EXCEPT !.tool = tool, !.args = args]

\* Log texts: no marker; the marker alone; the server's heartbeat line; the
\* Autonomy prefix with and without a thought; a thought of two lines; the
\* marker on the second line with nothing after it; two markers.
LogContents ==
    { <<Word(1)>>,
      <<Hb>>,
      <<Word(1), Sp, Hb, Sp, Word(2)>>,
      <<Hb, Sp, Au, Sp, Word(2)>>,
      <<Hb, Sp, Au, Sp>>,
      <<Hb, Sp, Word(2), Nl, Word(3)>>,
      <<Word(1), Nl, Hb>>,
      <<Hb, Sp, Word(1), Sp, Hb, Sp>> }

\* The args of a tool_start event: a string of n characters (a character is
\* its position), n being 0 or one of the two largest lengths.
ArgStrings == {[i \in 1..n |-> i] : n \in {0, MaxArgChars - 1, MaxArgChars}}

Payloads ==
    {Malformed, Event("refresh_status"), Event("refresh_journal"), Event("ping"),
     ResponseEvent(<<Word(1), Nl, Word(2)>>),
     StatusEvent("thinking"), StatusEvent("speaking")}
        \cup {LogEvent(c) : c \in LogContents}
        \cup {ToolStartEvent("search", a) : a \in ArgStrings}

\* Mutant of WsOnMessage: a payload that does not parse is reported in the
\* log console.
WsOnMessage_ReportsParseError(s, p) ==
    LET is(t) == p.parses /\ p.type = t
        starts == is("refresh_status") \/ (is("refresh_journal") /\ activeTab = "journal")
        thought == IF is("log") /\ Includes(p.content, Hb)
                   THEN HeartbeatThought(p.content)
                   ELSE <<>>
        line == IF p.parses THEN EventLine(p.content) ELSE LogLine("SYSTEM: Bad payload.", 0)
        logs == is("log") \/ ~p.parses
    IN  /\ sockets[s] = "OPEN"
        /\ starts => InFlight < MaxInFlight
        /\ inbound' = Append(inbound, p)
        /\ chatWindow' = IF is("response")
                         THEN addMessage(chatWindow, "assistant", p.content)
                         ELSE chatWindow
        /\ statusText' = IF is("response") THEN "IDLE"
                         ELSE IF is("status") THEN toUpperCase(p.status)
                         ELSE statusText
        /\ logConsole' = IF logs THEN addLog(logConsole, line) ELSE logConsole
        /\ logHistory' = IF logs THEN Append(logHistory, line) ELSE logHistory
        /\ thoughtStream' = IF thought # <<>>
                            THEN addThought(thoughtStream, thought)
                            ELSE thoughtStream
        /\ thoughtHistory' = IF thought # <<>>
                             THEN Append(thoughtHistory, thought)
                             ELSE thoughtHistory
        /\ statusInFlight' = IF is("refresh_status")
                             THEN statusInFlight + 1
                             ELSE statusInFlight
        /\ statusFetches' = IF is("refresh_status")
                            THEN Append(statusFetches, StatusFetch(TRUE))
                            ELSE statusFetches
        /\ journalInFlight' = IF is("refresh_journal") /\ activeTab = "journal"
                              THEN journalInFlight + 1
                              ELSE journalInFlight
        /\ journalFetches' = IF is("refresh_journal") /\ activeTab = "journal"
                             THEN Append(journalFetches, TRUE)
                             ELSE journalFetches
        /\ UNCHANGED <<chatVars, resetInFlight, lastStatus, passCounts,
                       sockets, reconnectDelay, reconnectTimer, timers, timerSeq,
                       connectionDot, lastMemoryCount, memoryCountText, goalTitle,
                       activeView, graphVars, histVars, activeTab, journalFeed,
                       transportUp, ether>>

\* Mutant of WsOnMessage: the response branch falls through into the log
\* branch.
WsOnMessage_FallsThrough(s, p) ==
    LET is(t) == p.parses /\ p.type = t
        starts == is("refresh_status") \/ (is("refresh_journal") /\ activeTab = "journal")
        thought == IF is("log") /\ Includes(p.content, Hb)
                   THEN HeartbeatThought(p.content)
                   ELSE <<>>
        logs == is("log") \/ is("response")
    IN  /\ sockets[s] = "OPEN"
        /\ starts => InFlight < MaxInFlight
        /\ inbound' = Append(inbound, p)
        /\ chatWindow' = IF is("response")
                         THEN addMessage(chatWindow, "assistant", p.content)
                         ELSE chatWindow
        /\ statusText' = IF is("response") THEN "IDLE"
                         ELSE IF is("status") THEN toUpperCase(p.status)
                         ELSE statusText
        /\ logConsole' = IF logs THEN addLog(logConsole, EventLine(p.content))
                         ELSE logConsole
        /\ logHistory' = IF logs THEN Append(logHistory, EventLine(p.content))
                         ELSE logHistory
        /\ thoughtStream' = IF thought # <<>>
                            THEN addThought(thoughtStream, thought)
                            ELSE thoughtStream
        /\ thoughtHistory' = IF thought # <<>>
                             THEN Append(thoughtHistory, thought)
                             ELSE thoughtHistory
        /\ statusInFlight' = IF is("refresh_status")
                             THEN statusInFlight + 1
                             ELSE statusInFlight
        /\ statusFetches' = IF is("refresh_status")
                            THEN Append(statusFetches, StatusFetch(TRUE))
                            ELSE statusFetches
        /\ journalInFlight' = IF is("refresh_journal") /\ activeTab = "journal"
                              THEN journalInFlight + 1
                              ELSE journalInFlight
        /\ journalFetches' = IF is("refresh_journal") /\ activeTab = "journal"
                             THEN Append(journalFetches, TRUE)
                             ELSE journalFetches
        /\ UNCHANGED <<chatVars, resetInFlight, lastStatus, passCounts,
                       sockets, reconnectDelay, reconnectTimer, timers, timerSeq,
                       connectionDot, lastMemoryCount, memoryCountText, goalTitle,
                       activeView, graphVars, histVars, activeTab, journalFeed,
                       transportUp, ether>>

\* Mutant of WsOnMessage: refresh_journal reloads the journal whatever tab
\* is shown.
WsOnMessage_AlwaysLoadsJournal(s, p) ==
    LET is(t) == p.parses /\ p.type = t
        starts == is("refresh_status") \/ is("refresh_journal")
        thought == IF is("log") /\ Includes(p.content, Hb)
                   THEN HeartbeatThought(p.content)
                   ELSE <<>>
    IN  /\ sockets[s] = "OPEN"
        /\ starts => InFlight < MaxInFlight
        /\ inbound' = Append(inbound, p)
        /\ chatWindow' = IF is("response")
                         THEN addMessage(chatWindow, "assistant", p.content)
                         ELSE chatWindow
        /\ statusText' = IF is("response") THEN "IDLE"
                         ELSE IF is("status") THEN toUpperCase(p.status)
                         ELSE statusText
        /\ logConsole' = IF is("log") THEN addLog(logConsole, EventLine(p.content))
                         ELSE logConsole
        /\ logHistory' = IF is("log") THEN Append(logHistory, EventLine(p.content))
                         ELSE logHistory
        /\ thoughtStream' = IF thought # <<>>
                            THEN addThought(thoughtStream, thought)
                            ELSE thoughtStream
        /\ thoughtHistory' = IF thought # <<>>
                             THEN Append(thoughtHistory, thought)
                             ELSE thoughtHistory
        /\ statusInFlight' = IF is("refresh_status")
                             THEN statusInFlight + 1
                             ELSE statusInFlight
        /\ statusFetches' = IF is("refresh_status")
                            THEN Append(statusFetches, StatusFetch(TRUE))
                            ELSE statusFetches
        /\ journalInFlight' = IF is("refresh_journal")
                              THEN journalInFlight + 1
                              ELSE journalInFlight
        /\ journalFetches' = IF is("refresh_journal")
                             THEN Append(journalFetches, TRUE)
                             ELSE journalFetches
        /\ UNCHANGED <<chatVars, resetInFlight, lastStatus, passCounts,
                       sockets, reconnectDelay, reconnectTimer, timers, timerSeq,
                       connectionDot, lastMemoryCount, memoryCountText, goalTitle,
                       activeView, graphVars, histVars, activeTab, journalFeed,
                       transportUp, ether>>

\* ws.onmessage on the payload p.  JSON.parse throws on a payload that does
\* not parse and the handler ends there; else the if / else-if chain on
\* data.type runs the branch of that type, or none.  is(t) is the test of
\* the branch of type t.
WsOnMessage(s, p) ==
    LET is(t) == p.parses /\ p.type = t
        starts == is("refresh_status") \/ (is("refresh_journal") /\ activeTab = "journal")
        thought == IF is("log") /\ Includes(p.content, Hb)
                   THEN HeartbeatThought(p.content)
                   ELSE <<>>
    IN  /\ sockets[s] = "OPEN"
        /\ starts => InFlight < MaxInFlight
        /\ inbound' = Append(inbound, p)
        /\ chatWindow' = IF is("response")
                         THEN addMessage(chatWindow, "assistant", p.content)
                         ELSE chatWindow
        /\ statusText' = IF is("response") THEN "IDLE"
                         ELSE IF is("status") THEN toUpperCase(p.status)
                         ELSE statusText
        /\ logConsole' = IF is("log") THEN addLog(logConsole, EventLine(p.content))
                         ELSE logConsole
        /\ logHistory' = IF is("log") THEN Append(logHistory, EventLine(p.content))
                         ELSE logHistory
        /\ thoughtStream' = IF thought # <<>>
                            THEN addThought(thoughtStream, thought)
                            ELSE thoughtStream
        /\ thoughtHistory' = IF thought # <<>>
                             THEN Append(thoughtHistory, thought)
                             ELSE thoughtHistory
        /\ statusInFlight' = IF is("refresh_status")
                             THEN statusInFlight + 1
                             ELSE statusInFlight
        /\ statusFetches' = IF is("refresh_status")
                            THEN Append(statusFetches, StatusFetch(TRUE))
                            ELSE statusFetches
        /\ journalInFlight' = IF is("refresh_journal") /\ activeTab = "journal"
                              THEN journalInFlight + 1
                              ELSE journalInFlight
        /\ journalFetches' = IF is("refresh_journal") /\ activeTab = "journal"
                             THEN Append(journalFetches, TRUE)
                             ELSE journalFetches
        /\ UNCHANGED <<chatVars, resetInFlight, lastStatus, passCounts,
                       sockets, reconnectDelay, reconnectTimer, timers, timerSeq,
                       connectionDot, lastMemoryCount, memoryCountText, goalTitle,
                       activeView, graphVars, histVars, activeTab, journalFeed,
                       transportUp, ether>>

(***************************************************************************)
(* Chat input.                                                             *)
(***************************************************************************)
\* What the user leaves in the input field: white space only, or a word with
\* white space around it.
InputTexts == {<<Sp>>, <<Sp, Word(1), Sp>>}

\* The user edits els.userInput.
TypeInput(text) ==
    /\ userInput # text
    /\ userInput' = text
    /\ UNCHANGED <<outbound, sendAttempts, resetInFlight, statusFetches, auditVars,
                   connVars, statusVars, activeView, graphVars, histVars,
                   logHistory, dispVars>>

CannotSend == LogLine("SYSTEM: Cannot send - uplink not connected.", 0)

\* What sendMessage leaves alone whatever the input.
SendMessageFrame ==
    UNCHANGED <<resetInFlight, statusFetches, auditVars, sockets, reconnectDelay,
                reconnectTimer, timers, timerSeq, connectionDot, statusVars,
                activeView, graphVars, histVars, thoughtStream, activeTab,
                journalInFlight, journalFeed, wireVars, thoughtHistory, ether>>

\* Mutant of sendMessage: the state of the channel is not tested.
SendMessage_NoChannelTest ==
    LET text == Trim(userInput)
    IN  /\ sendAttempts < MaxSends
        /\ sendAttempts' = sendAttempts + 1
        /\ IF text = <<>>
           THEN UNCHANGED <<userInput, outbound, chatWindow, statusText,
                            logConsole, logHistory>>
           ELSE /\ chatWindow' = addMessage(chatWindow, "user", text)
                /\ outbound' = Append(outbound, [socket |-> ws, text |-> text])
                /\ userInput' = <<>>
                /\ statusText' = "THINKING"
                /\ UNCHANGED <<logConsole, logHistory>>
        /\ SendMessageFrame

\* Mutant of sendMessage: the input is not trimmed before the tests.
SendMessage_NoTrim ==
    LET text == userInput
    IN  /\ sendAttempts < MaxSends
        /\ sendAttempts' = sendAttempts + 1
        /\ IF text = <<>>
           THEN UNCHANGED <<userInput, outbound, chatWindow, statusText,
                            logConsole, logHistory>>
           ELSE IF sockets[ws] # "OPEN"
           THEN /\ logConsole' = addLog(logConsole, CannotSend)
                /\ logHistory' = Append(logHistory, CannotSend)
                /\ UNCHANGED <<userInput, outbound, chatWindow, statusText>>
           ELSE /\ chatWindow' = addMessage(chatWindow, "user", text)
                /\ outbound' = Append(outbound, [socket |-> ws, text |-> text])
                /\ userInput' = <<>>
                /\ statusText' = "THINKING"
                /\ UNCHANGED <<logConsole, logHistory>>
        /\ SendMessageFrame

\* sendMessage: the Enter key or the send button.  ws is never null once the
\* script has run.
SendMessage ==
    LET text == Trim(userInput)
    IN  /\ sendAttempts < MaxSends
        /\ sendAttempts' = sendAttempts + 1
        /\ IF text = <<>>
           THEN UNCHANGED <<userInput, outbound, chatWindow, statusText,
                            logConsole, logHistory>>
           ELSE IF sockets[ws] # "OPEN"
           THEN /\ logConsole' = addLog(logConsole, CannotSend)
                /\ logHistory' = Append(logHistory, CannotSend)
                /\ UNCHANGED <<userInput, outbound, chatWindow, statusText>>
           ELSE /\ chatWindow' = addMessage(chatWindow, "user", text)
                /\ outbound' = Append(outbound, [socket |-> ws, text |-> text])
                /\ userInput' = <<>>
                /\ statusText' = "THINKING"
                /\ UNCHANGED <<logConsole, logHistory>>
        /\ SendMessageFrame

(***************************************************************************)
(* Status change detector.                                                 *)
(***************************************************************************)
Goals == {"", "Idle", "Index the archive"}

\* The bodies /api/status answers with: memory_count may be absent, goal is
\* "" when data.goal or data.goal.goal is absent.
StatusData ==
    {d \in [has_count : BOOLEAN, memory_count : 0..MaxCount, goal : Goals] :
        ~d.has_count => d.memory_count = 0}

\* const count = data.memory_count || 0
CountOf(d) == IF d.has_count THEN d.memory_count ELSE 0

\* Mutant of ShouldRefreshGraph: a count equal to the last one passes too.
ShouldRefreshGraph_AtOrAbove(count) ==
    /\ count >= lastMemoryCount
    /\ lastMemoryCount # -1
    /\ activeView = "graph"

\* Mutant of ShouldRefreshGraph: the sentinel is not looked at.
ShouldRefreshGraph_NoSentinel(count) ==
    /\ count > lastMemoryCount
    /\ activeView = "graph"

\* The conditions under which fetchStatus calls loadGraph(true).
ShouldRefreshGraph(count) ==
    /\ count > lastMemoryCount
    /\ lastMemoryCount # -1
    /\ activeView = "graph"

\* lastMemoryCount after a snapshot: assigned inside if (count > lastMemoryCount).
NextLastMemoryCount(count) ==
    IF count > lastMemoryCount THEN count ELSE lastMemoryCount

\* The goal branch of fetchStatus.
GoalTitleOf(d) ==
    IF d.goal # "" /\ d.goal # "Idle" THEN d.goal ELSE "No active goal"

\* setInterval(fetchStatus, 5000): the call up to its await.
Poll ==
    /\ InFlight < MaxInFlight
    /\ statusInFlight' = statusInFlight + 1
    /\ statusFetches' = Append(statusFetches, StatusFetch(FALSE))
    /\ UNCHANGED <<chatVars, resetInFlight, auditVars,
                   connVars, lastMemoryCount, memoryCountText, goalTitle,
                   activeView, graphVars, histVars,
                   logHistory, dispVars>>

\* Mutant of FetchStatusApply: a response overtaken by one of the other
\* origin is not shown.
FetchStatusApply_SkipsOvertaken(i, data, ok) ==
    /\ statusInFlight > 0
    /\ statusInFlight' = statusInFlight - 1
    /\ memoryCountText' = IF statusFetches[i].sawOther # -1
                         THEN memoryCountText
                         ELSE CountOf(data)
    /\ graphInFlight' =
           IF ShouldRefreshGraph(CountOf(data))
           THEN [graphInFlight EXCEPT ![TRUE] = @ + 1]
           ELSE graphInFlight
    /\ lastMemoryCount' = NextLastMemoryCount(CountOf(data))
    /\ goalTitle' = IF statusFetches[i].sawOther # -1
                   THEN goalTitle
                   ELSE GoalTitleOf(data)
    /\ statusSeen' = TRUE
    /\ statusFetches' = AfterResponse(i, CountOf(data))
    /\ lastStatus' = [data |-> data, ok |-> ok,
                      byEvent |-> statusFetches[i].byEvent,
                      overlap |-> statusFetches[i].sawOther,
                      pass |-> ShouldRefreshGraph(CountOf(data))]
    /\ passCounts' = IF ShouldRefreshGraph(CountOf(data))
                     THEN passCounts \cup {CountOf(data)}
                     ELSE passCounts
    /\ UNCHANGED <<chatVars, resetInFlight, journalFetches,
                   connVars, activeView, wipeInFlight, network, graphNodes,
                   graphEdges, schedDelays, failuresBeforeOpen, connectPending,
                   lastPass,
                   logHistory, dispVars>>

\* fetchStatus after its awaits, the body of the response parsed as data:
\* the call completing is the i-th in flight; ok is the response's ok flag,
\* which the code does not read.
FetchStatusApply(i, data, ok) ==
    /\ statusInFlight > 0
    /\ statusInFlight' = statusInFlight - 1
    /\ memoryCountText' = CountOf(data)
    /\ graphInFlight' =
           IF ShouldRefreshGraph(CountOf(data))
           THEN [graphInFlight EXCEPT ![TRUE] = @ + 1]
           ELSE graphInFlight
    /\ lastMemoryCount' = NextLastMemoryCount(CountOf(data))
    /\ goalTitle' = GoalTitleOf(data)
    /\ statusSeen' = TRUE
    /\ statusFetches' = AfterResponse(i, CountOf(data))
    /\ lastStatus' = [data |-> data, ok |-> ok,
                      byEvent |-> statusFetches[i].byEvent,
                      overlap |-> statusFetches[i].sawOther,
                      pass |-> ShouldRefreshGraph(CountOf(data))]
    /\ passCounts' = IF ShouldRefreshGraph(CountOf(data))
                     THEN passCounts \cup {CountOf(data)}
                     ELSE passCounts
    /\ UNCHANGED <<chatVars, resetInFlight, journalFetches,
                   connVars, activeView, wipeInFlight, network, graphNodes,
                   graphEdges, schedDelays, failuresBeforeOpen, connectPending,
                   lastPass,
                   logHistory, dispVars>>

\* A success response: its body is a status snapshot.
FetchStatusOk(data) ==
    \E i \in 1..Len(statusFetches) : FetchStatusApply(i, data, TRUE)

\* The JSON bodies of non-success responses, such as {"detail": "..."}: no
\* memory_count, no goal.
ErrorBodies == {d \in StatusData : ~d.has_count /\ d.goal = ""}

\* A non-success response with a JSON body: fetch resolves, res.json()
\* resolves, and the body is handled as a snapshot.
FetchStatusHttpError(body) ==
    \E i \in 1..Len(statusFetches) : FetchStatusApply(i, body, FALSE)

\* fetchStatus when fetch or res.json() rejects: the catch block only logs
\* to the console.
FetchStatusFail ==
    /\ statusInFlight > 0
    /\ statusInFlight' = statusInFlight - 1
    /\ \E i \in 1..Len(statusFetches) : statusFetches' = RemoveAt(statusFetches, i)
    /\ UNCHANGED <<chatVars, resetInFlight, auditVars,
                   connVars, lastMemoryCount, memoryCountText, goalTitle,
                   activeView, graphVars, histVars,
                   logHistory, dispVars>>

(***************************************************************************)
(* Graph synchronizer.                                                     *)
(***************************************************************************)
NodeIds == 1..MaxNodeId

\* The edges the backend may report.  Node ids and labels hold no "|", so the
\* composite key of the code, `${e.from}|${e.to}|${e.label}`, is the triple.
EdgeUniverse ==
    { [from |-> 1, to |-> 2, label |-> "likes"],
      [from |-> 1, to |-> 2, label |-> "owns"] }

EdgeKey(e) == <<e.from, e.to, e.label>>

SeqsUpTo(S, n) == UNION {[1..k -> S] : k \in 0..n}

\* The bodies /api/memory/graph answers with.  A node is its id (ids are
\* unique within one response); the edges array may repeat an edge.
GraphData ==
    {d \in [has_nodes : BOOLEAN, nodes : SUBSET NodeIds,
            edges : SeqsUpTo(EdgeUniverse, MaxEdges)] :
        ~d.has_nodes => (d.nodes = {} /\ d.edges = <<>>)}

\* Array.prototype.filter on an edges array, keeping the edges whose key is
\* not in keys: order and repetitions are kept.
RECURSIVE FilterEdges(_, _)
FilterEdges(edges, keys) ==
    IF edges = <<>> THEN <<>>
    ELSE IF EdgeKey(Head(edges)) \notin keys
         THEN <<Head(edges)>> \o FilterEdges(Tail(edges), keys)
         ELSE FilterEdges(Tail(edges), keys)

\* data.nodes.filter(n => !existingNodeIds.has(n.id))
NewNodes(data) == {n \in data.nodes : n \notin graphNodes}

\* new Set(existingEdges.map(e => `${e.from}|${e.to}|${e.label}`))
ExistingEdgeKeys == {EdgeKey(e) : e \in Range(graphEdges)}

\* Mutant of NewEdges: the key compared leaves the label out.
NewEdges_KeyWithoutLabel(data) ==
    SelectSeq(data.edges,
              LAMBDA e : <<e.from, e.to>> \notin
                             {<<x.from, x.to>> : x \in Range(graphEdges)})

\* data.edges.filter(e => !existingEdgeKeys.has(...))
NewEdges(data) == FilterEdges(data.edges, ExistingEdgeKeys)

\* loadGraph(force) up to its fetch (the container element exists).
loadGraph(force) == graphInFlight' = [graphInFlight EXCEPT ![force] = @ + 1]

\* Mutant of PassKind: once seeded, every response is merged.
PassKind_MergesAlways(force, data) ==
    IF ~data.has_nodes THEN "nonodes"
    ELSE IF ~network THEN "seed"
    ELSE "forced"

\* The branch of the .then callback of loadGraph that a response takes.
PassKind(force, data) ==
    IF ~data.has_nodes THEN "nonodes"
    ELSE IF ~network THEN "seed"
    ELSE IF force THEN "forced"
    ELSE "plain"

\* if (!network): both DataSets take the fetched arrays whole.
SeedPass(data) ==
    /\ graphNodes' = graphNodes \cup data.nodes
    /\ graphEdges' = graphEdges \o data.edges
    /\ network' = TRUE

\* Mutant of ForcedPass: the fetched edges are added without the filter.
ForcedPass_AddsAll(data) ==
    /\ graphNodes' = graphNodes \cup NewNodes(data)
    /\ graphEdges' = graphEdges \o data.edges
    /\ UNCHANGED network

\* else if (force): only the items whose id or composite key is new.
ForcedPass(data) ==
    /\ graphNodes' = graphNodes \cup NewNodes(data)
    /\ graphEdges' = graphEdges \o NewEdges(data)
    /\ UNCHANGED network

\* No two items of an edges array share a composite key.
NoRepeatedKey(edges) ==
    \A i, j \in 1..Len(edges) :
        EdgeKey(edges[i]) = EdgeKey(edges[j]) => i = j

IsPrefix(s, t) == Len(s) <= Len(t) /\ SubSeq(t, 1, Len(s)) = s

\* The response holds a node or an edge that the state does not.
HoldsUnknown(data) ==
    \/ NewNodes(data) # {}
    \/ NewEdges(data) # <<>>

\* History of a response that reached neither branch although it held items
\* the state does not: only its kind is kept.
DroppedRecord ==
    [kind |-> "plain", fetched |-> TRUE, held |-> FALSE, superset |-> FALSE,
     noDelta |-> FALSE, added |-> FALSE, exact |-> FALSE]

\* History of the last response that was applied (seed or forced branch),
\* taken in the step that applies it; the primed variables are the state the
\* step leaves:
\*   kind     the branch taken
\*   fetched  the response held a node or an edge
\*   held     every fetched node and edge was in the state already
\*   superset the response is a set (no key twice) holding every node and
\*            edge of the state, itself free of repeated keys
\*   noDelta  forced branch: newNodes and newEdges came out empty
\*   added    the state has changed
\*   exact    for a superset: the state left is the fetched set, the edges
\*            held before still first, nothing twice
PassRecord(force, data) ==
    LET superset == /\ NoRepeatedKey(data.edges)
                    /\ NoRepeatedKey(graphEdges)
                    /\ graphNodes \subseteq data.nodes
                    /\ Range(graphEdges) \subseteq Range(data.edges)
    IN  [kind |-> PassKind(force, data),
         fetched |-> data.nodes # {} \/ data.edges # <<>>,
         held |-> /\ data.nodes \subseteq graphNodes
                  /\ Range(data.edges) \subseteq Range(graphEdges),
         superset |-> superset,
         noDelta |-> /\ PassKind(force, data) = "forced"
                     /\ NewNodes(data) = {}
                     /\ NewEdges(data) = <<>>,
         added |-> graphNodes' # graphNodes \/ graphEdges' # graphEdges,
         exact |-> /\ superset
                   /\ graphNodes' = data.nodes
                   /\ Range(graphEdges') = Range(data.edges)
                   /\ Len(graphEdges') = Len(data.edges)
                   /\ IsPrefix(graphEdges, graphEdges')]

\* Mutant of LoadGraphResolve: a forced pass replaces the state by the
\* fetched set.
LoadGraphResolve_Replaces(force, data) ==
    /\ graphInFlight[force] > 0
    /\ graphInFlight' = [graphInFlight EXCEPT ![force] = @ - 1]
    /\ CASE PassKind(force, data) = "seed" -> SeedPass(data)
         [] PassKind(force, data) = "forced" ->
                /\ graphNodes' = data.nodes
                /\ graphEdges' = data.edges
                /\ UNCHANGED network
         [] OTHER -> UNCHANGED <<network, graphNodes, graphEdges>>
    /\ lastPass' = IF PassKind(force, data) \in {"seed", "forced"}
                   THEN PassRecord(force, data)
                   ELSE IF PassKind(force, data) = "plain" /\ HoldsUnknown(data)
                   THEN DroppedRecord
                   ELSE lastPass
    /\ UNCHANGED <<chatVars, resetInFlight, statusFetches, auditVars,
                   connVars, statusVars, activeView, wipeInFlight, schedDelays,
                   failuresBeforeOpen, connectPending, statusSeen,
                   logHistory, dispVars>>

\* The .then callback of loadGraph(force) on the parsed response data.
LoadGraphResolve(force, data) ==
    /\ graphInFlight[force] > 0
    /\ graphInFlight' = [graphInFlight EXCEPT ![force] = @ - 1]
    /\ CASE PassKind(force, data) = "seed" -> SeedPass(data)
         [] PassKind(force, data) = "forced" -> ForcedPass(data)
         [] OTHER -> UNCHANGED <<network, graphNodes, graphEdges>>
    /\ lastPass' = IF PassKind(force, data) \in {"seed", "forced"}
                   THEN PassRecord(force, data)
                   ELSE IF PassKind(force, data) = "plain" /\ HoldsUnknown(data)
                   THEN DroppedRecord
                   ELSE lastPass
    /\ UNCHANGED <<chatVars, resetInFlight, statusFetches, auditVars,
                   connVars, statusVars, activeView, wipeInFlight, schedDelays,
                   failuresBeforeOpen, connectPending, statusSeen,
                   logHistory, dispVars>>

\* fetch or r.json() rejects: no callback of loadGraph runs.
LoadGraphFail(force) ==
    /\ graphInFlight[force] > 0
    /\ graphInFlight' = [graphInFlight EXCEPT ![force] = @ - 1]
    /\ UNCHANGED <<chatVars, resetInFlight, statusFetches, auditVars,
                   connVars, statusVars, activeView, wipeInFlight, network,
                   graphNodes, graphEdges, histVars,
                   logHistory, dispVars>>

(***************************************************************************)
(* Navigation and control requests.                                        *)
(***************************************************************************)
Views == {"dashboard", "graph", "settings"}

\* switchMainView(viewId): the graph view also calls loadGraph().
SwitchMainView(viewId) ==
    /\ activeView' = viewId
    /\ IF viewId = "graph"
       THEN InFlight < MaxInFlight /\ loadGraph(FALSE)
       ELSE UNCHANGED graphInFlight
    /\ UNCHANGED <<chatVars, resetInFlight, statusFetches, auditVars,
                   connVars, statusVars, wipeInFlight, network, graphNodes,
                   graphEdges, histVars,
                   logHistory, dispVars>>

\* Mutant of WipeMemory: the POST is issued whatever confirm() answers.
WipeMemory_NoConfirm(confirmed) ==
    /\ InFlight < MaxInFlight
    /\ wipeInFlight' = wipeInFlight + 1
    /\ UNCHANGED <<chatVars, resetInFlight, statusFetches, auditVars,
                   connVars, statusVars, activeView, graphInFlight, network,
                   graphNodes, graphEdges, histVars,
                   logHistory, dispVars>>

\* window.wipeMemory: the POST is issued only when confirm() answers true.
WipeMemory(confirmed) ==
    /\ IF confirmed
       THEN InFlight < MaxInFlight /\ wipeInFlight' = wipeInFlight + 1
       ELSE UNCHANGED wipeInFlight
    /\ UNCHANGED <<chatVars, resetInFlight, statusFetches, auditVars,
                   connVars, statusVars, activeView, graphInFlight, network,
                   graphNodes, graphEdges, histVars,
                   logHistory, dispVars>>

\* .then(() => fetchStatus()) of the POST.
WipeResolve ==
    /\ wipeInFlight > 0
    /\ wipeInFlight' = wipeInFlight - 1
    /\ statusInFlight' = statusInFlight + 1
    /\ statusFetches' = Append(statusFetches, StatusFetch(FALSE))
    /\ UNCHANGED <<chatVars, resetInFlight, auditVars,
                   connVars, lastMemoryCount, memoryCountText, goalTitle,
                   activeView, graphInFlight, network, graphNodes, graphEdges,
                   histVars,
                   logHistory, dispVars>>

\* The POST rejects: no callback runs.
WipeReject ==
    /\ wipeInFlight > 0
    /\ wipeInFlight' = wipeInFlight - 1
    /\ UNCHANGED <<chatVars, resetInFlight, statusFetches, auditVars,
                   connVars, statusVars, activeView, graphInFlight, network,
                   graphNodes, graphEdges, histVars,
                   logHistory, dispVars>>

\* window.fullReset: the POST is issued only when confirm() answers true.
FullReset(confirmed) ==
    /\ IF confirmed
       THEN InFlight < MaxInFlight /\ resetInFlight' = resetInFlight + 1
       ELSE UNCHANGED resetInFlight
    /\ UNCHANGED <<chatVars, statusFetches, auditVars,
                   connVars, statusVars, activeView, graphVars, histVars,
                   logHistory, dispVars>>

\* The .then callbacks of the POST: r.json(), then alert(data.status),
\* fetchStatus() and loadJournal().
ResetResolve ==
    /\ resetInFlight > 0
    /\ InFlight < MaxInFlight
    /\ resetInFlight' = resetInFlight - 1
    /\ statusInFlight' = statusInFlight + 1
    /\ statusFetches' = Append(statusFetches, StatusFetch(FALSE))
    /\ journalInFlight' = journalInFlight + 1
    /\ journalFetches' = Append(journalFetches, FALSE)
    /\ UNCHANGED <<chatVars, lastStatus, passCounts,
                   connVars, lastMemoryCount, memoryCountText, goalTitle,
                   activeView, graphVars, histVars, logHistory, chatWindow,
                   thoughtStream, activeTab, journalFeed, wireVars,
                   thoughtHistory, ether>>

\* The POST or r.json() rejects: no callback runs.
ResetReject ==
    /\ resetInFlight > 0
    /\ resetInFlight' = resetInFlight - 1
    /\ UNCHANGED <<chatVars, statusFetches, auditVars,
                   connVars, statusVars, activeView, graphVars, histVars,
                   logHistory, dispVars>>

Tabs == {"mission", "logs", "journal"}

\* The bodies /api/journal answers with: entries absent, empty, or two
\* entries (an entry is its number).
JournalData ==
    { [has_entries |-> FALSE, entries |-> <<>>],
      [has_entries |-> TRUE, entries |-> <<>>],
      [has_entries |-> TRUE, entries |-> <<1, 2>>] }

\* Array.prototype.reverse
Reverse(seq) == [i \in 1..Len(seq) |-> seq[Len(seq) + 1 - i]]

\* loadJournal() up to its await.
loadJournal == journalInFlight' = journalInFlight + 1

\* switchRightTab(tabId): the journal tab also calls loadJournal().
SwitchRightTab(tabId) ==
    /\ activeTab' = tabId
    /\ IF tabId = "journal"
       THEN /\ InFlight < MaxInFlight
            /\ loadJournal
            /\ journalFetches' = Append(journalFetches, FALSE)
       ELSE UNCHANGED <<journalInFlight, journalFetches>>
    /\ UNCHANGED <<chatVars, resetInFlight, statusFetches, lastStatus, passCounts,
                   connVars, statusVars, activeView, graphVars, histVars,
                   logHistory, chatWindow, thoughtStream, journalFeed, wireVars,
                   thoughtHistory, ether>>

\* loadJournal after its awaits: the empty-state notice, or one card per
\* entry, last entry first.
LoadJournalResolve(data) ==
    /\ journalInFlight > 0
    /\ journalInFlight' = journalInFlight - 1
    /\ \E i \in 1..Len(journalFetches) : journalFetches' = RemoveAt(journalFetches, i)
    /\ journalFeed' = IF ~data.has_entries \/ data.entries = <<>>
                      THEN [empty |-> TRUE, cards |-> <<>>]
                      ELSE [empty |-> FALSE, cards |-> Reverse(data.entries)]
    /\ UNCHANGED <<chatVars, resetInFlight, statusFetches, lastStatus, passCounts,
                   connVars, statusVars, activeView, graphVars, histVars,
                   logHistory, chatWindow, thoughtStream, activeTab, wireVars,
                   thoughtHistory, ether>>

\* loadJournal when fetch or res.json() rejects: the catch block only logs to
\* the console.
LoadJournalFail ==
    /\ journalInFlight > 0
    /\ journalInFlight' = journalInFlight - 1
    /\ \E i \in 1..Len(journalFetches) : journalFetches' = RemoveAt(journalFetches, i)
    /\ UNCHANGED <<chatVars, resetInFlight, statusFetches, lastStatus, passCounts,
                   connVars, statusVars, activeView, graphVars, histVars,
                   logHistory, chatWindow, thoughtStream, activeTab, journalFeed,
                   wireVars, thoughtHistory, ether>>

\* Environment: from this step on the transport fails no more.
TransportRecovers ==
    /\ ~transportUp
    /\ transportUp' = TRUE
    /\ UNCHANGED <<chatVars, resetInFlight, statusFetches, auditVars,
                   connVars, statusVars, activeView, graphVars, histVars,
                   logHistory, uiVars, inbound, thoughtHistory, ether>>

(***************************************************************************)
(* The Ether dashboard (src/unnamed/part_001): its socket, its dispatcher  *)
(* handleWsMessage and the fetches the dispatcher starts.  All of its      *)
(* state is the record ether:                                              *)
(*   ws, sockets, timers   readyState of ws, sockets made, pending timers  *)
(*   orb, stateLabel, activityLabel   els.orb.className and the labels     *)
(*   chatMessages, liveStream         children, liveStream first first     *)
(*   view                  the .view element holding class "active"        *)
(*   statusInFlight, journalInFlight  fetches awaiting their response      *)
(*   memCountBadge, missionGoal, journalFeed   what the fetches rendered   *)
(*   inbound               history: payloads delivered to ws.onmessage     *)
(***************************************************************************)
Label(text, tool) == [text |-> text, tool |-> tool]

\* A child of liveStream: the text given to addStreamLine and its type; a
\* tool line holds the tool name, the preview and whether "..." follows it.
StreamLine(text, type) ==
    [text |-> text, type |-> type, content |-> <<>>, tool |-> "",
     preview |-> <<>>, ellipsis |-> FALSE]

\* addStreamLine: prepend, then drop the last child if more than StreamCap
\* are held.
addStreamLine(stream, line) ==
    LET prepended == <<line>> \o stream
    IN  IF Len(prepended) > StreamCap
        THEN SubSeq(prepended, 1, Len(prepended) - 1)
        ELSE prepended

\* setOrbState(state)
setOrbState(e, state) ==
    [e EXCEPT !.orb = state,
              !.stateLabel = IF state = "thinking" THEN "Nexus Reasoning"
                             ELSE IF state = "speaking" THEN "Nexus Speaking"
                             ELSE "Nexus Core"]

\* addChatMessage: assistant text goes through marked.parse.
addChatMessage(messages, role, text) ==
    Append(messages, [role |-> role, marked |-> role = "assistant", text |-> text])

\* JSON.stringify of a string: the characters between two quotes (no
\* character of ArgStrings needs an escape).  The quote is character 0.
JsonStringify(str) == <<0>> \o str \o <<0>>

\* String.prototype.substring(from, to), 0 <= from <= to.
Substring(str, from, to) == SubSeq(str, from + 1, Min(to, Len(str)))

\* Mutant of ToolLine: "..." is shown from 30 characters on.
ToolLine_EllipsisAtThirty(tool, args) ==
    [StreamLine("Running", "tool") EXCEPT
        !.tool = tool,
        !.preview = Substring(args, 0, PreviewLen),
        !.ellipsis = Len(args) >= PreviewLen]

\* `⚡ Running ${data.tool}(${args.substring(0, 30)}${args.length > 30 ? '...' : ''})`
ToolLine(tool, args) ==
    [StreamLine("Running", "tool") EXCEPT
        !.tool = tool,
        !.preview = Substring(args, 0, PreviewLen),
        !.ellipsis = Len(args) > PreviewLen]

\* handleWsMessage(data): the switch on data.type; every case ends in break.
handleWsMessage(e, data) ==
    CASE data.type = "status" ->
           [setOrbState(e, data.status) EXCEPT
               !.activityLabel =
                   IF data.status = "thinking"
                   THEN Label("Processing neural patterns...", "")
                   ELSE IF data.status = "speaking"
                   THEN Label("Transmitting response...", "")
                   ELSE IF data.status = "idle"
                   THEN Label("Awaiting interaction...", "")
                   ELSE @]
      [] data.type = "tool_start" ->
           LET args == JsonStringify(data.args)
           IN  [setOrbState(e, "thinking") EXCEPT
                   !.activityLabel = Label("Executing:", data.tool),
                   !.liveStream = addStreamLine(@, ToolLine(data.tool, args))]
      [] data.type = "response" ->
           [setOrbState(e, "idle") EXCEPT
               !.chatMessages = addChatMessage(@, "assistant", data.content),
               !.activityLabel = Label("Task complete.", "")]
      [] data.type = "log" ->
           [e EXCEPT !.liveStream =
               addStreamLine(@, [StreamLine("", "") EXCEPT !.content = data.content])]
      [] data.type = "refresh_status" ->
           [e EXCEPT !.statusInFlight = @ + 1]
      [] data.type = "refresh_journal" ->
           IF e.view = "journal" THEN [e EXCEPT !.journalInFlight = @ + 1] ELSE e
      [] OTHER -> e

EtherUnchanged ==
    UNCHANGED <<chatVars, resetInFlight, statusFetches, auditVars,
                connVars, statusVars, activeView, graphVars, histVars, logHistory,
                uiVars, wireVars, thoughtHistory>>

EtherInFlight == ether.statusInFlight + ether.journalInFlight

\* ws.onopen of connect()
EtherOnOpen ==
    /\ ether.ws = "CONNECTING"
    /\ EtherInFlight < MaxInFlight
    /\ ether' = [setOrbState(ether, "idle") EXCEPT
                    !.ws = "OPEN",
                    !.stateLabel = "Core Connected",
                    !.liveStream = addStreamLine(@,
                        StreamLine("System uplink established.", "sys")),
                    !.statusInFlight = @ + 1]
    /\ EtherUnchanged

\* ws.onmessage of connect(): JSON.parse, then handleWsMessage(data).
EtherOnMessage(p) ==
    /\ ether.ws = "OPEN"
    /\ (p.parses /\ p.type \in {"refresh_status", "refresh_journal"})
           => EtherInFlight < MaxInFlight
    /\ ether' = [(IF p.parses THEN handleWsMessage(ether, p) ELSE ether)
                    EXCEPT !.inbound = Append(ether.inbound, p)]
    /\ EtherUnchanged

\* ws.onclose of connect(): the reconnection is scheduled after 2000 ms.
EtherOnClose ==
    /\ ether.ws \in {"CONNECTING", "OPEN"}
    /\ ether' = [setOrbState(ether, "idle") EXCEPT
                    !.ws = "CLOSED",
                    !.stateLabel = "Connection Lost",
                    !.timers = @ + 1]
    /\ EtherUnchanged

\* The timer set by ws.onclose fires: connect().
EtherReconnect ==
    /\ ether.timers > 0
    /\ ether.sockets < MaxSockets
    /\ ether' = [ether EXCEPT !.timers = @ - 1, !.ws = "CONNECTING",
                              !.sockets = @ + 1]
    /\ EtherUnchanged

\* fetchStatus of the Ether script after its awaits (subtasks and fleet are
\* not in the model).
EtherFetchStatusOk(data) ==
    /\ ether.statusInFlight > 0
    /\ ether' = [ether EXCEPT
                    !.statusInFlight = @ - 1,
                    !.memCountBadge = CountOf(data),
                    !.missionGoal = IF data.goal # "" /\ data.goal # "Idle"
                                    THEN data.goal
                                    ELSE "Awaiting Mission"]
    /\ EtherUnchanged

\* fetchStatus when fetch or res.json() rejects.
EtherFetchStatusFail ==
    /\ ether.statusInFlight > 0
    /\ ether' = [ether EXCEPT !.statusInFlight = @ - 1]
    /\ EtherUnchanged

EtherViews == {"chat", "journal"}

\* switchView(viewId) for the chat and journal views; the journal view
\* calls fetchJournal().
EtherSwitchView(viewId) ==
    /\ viewId = "journal" => EtherInFlight < MaxInFlight
    /\ ether' = [ether EXCEPT
                    !.view = viewId,
                    !.journalInFlight = IF viewId = "journal" THEN @ + 1 ELSE @]
    /\ EtherUnchanged

\* fetchJournal after its awaits: nothing without data.entries, else one
\* card per entry, last entry first.
EtherFetchJournalOk(data) ==
    /\ ether.journalInFlight > 0
    /\ ether' = [ether EXCEPT
                    !.journalInFlight = @ - 1,
                    !.journalFeed = IF data.has_entries
                                    THEN Reverse(data.entries)
                                    ELSE @]
    /\ EtherUnchanged

\* fetchJournal when fetch or res.json() rejects.
EtherFetchJournalFail ==
    /\ ether.journalInFlight > 0
    /\ ether' = [ether EXCEPT !.journalInFlight = @ - 1]
    /\ EtherUnchanged

(***************************************************************************)
(* The state once the script has run: connectWebSocket() has been called   *)
(* once, the poll interval is installed, nothing has been fetched.         *)
(***************************************************************************)
Init ==
    /\ sockets = <<"CONNECTING">>
    /\ reconnectDelay = BaseDelay
    /\ reconnectTimer = 0
    /\ timers = {}
    /\ timerSeq = 0
    /\ statusText = ""
    /\ connectionDot = "status-indicator"
    /\ logConsole = <<>>
    /\ statusInFlight = 0
    /\ lastMemoryCount = -1
    /\ memoryCountText = 0
    /\ goalTitle = ""
    /\ activeView = "dashboard"
    /\ graphInFlight = [f \in BOOLEAN |-> 0]
    /\ wipeInFlight = 0
    /\ network = FALSE
    /\ graphNodes = {}
    /\ graphEdges = <<>>
    /\ schedDelays = <<>>
    /\ failuresBeforeOpen = -1
    /\ connectPending = 0
    /\ lastPass = [kind |-> "none", fetched |-> FALSE, held |-> FALSE,
                   superset |-> FALSE, noDelta |-> FALSE, added |-> FALSE,
                   exact |-> FALSE]
    /\ statusSeen = FALSE
    /\ chatWindow = <<>>
    /\ thoughtStream = <<>>
    /\ activeTab = "mission"
    /\ journalInFlight = 0
    /\ journalFeed = [empty |-> FALSE, cards |-> <<>>]
    /\ transportUp = FALSE
    /\ inbound = <<>>
    /\ logHistory = <<>>
    /\ thoughtHistory = <<>>
    /\ ether = [ws |-> "CONNECTING", sockets |-> 1, timers |-> 0, orb |-> "",
                stateLabel |-> "", activityLabel |-> Label("", ""),
                chatMessages |-> <<>>, liveStream |-> <<>>, view |-> "chat",
                statusInFlight |-> 0, journalInFlight |-> 0, memCountBadge |-> 0,
                missionGoal |-> "", journalFeed |-> <<>>, inbound |-> <<>>]
    /\ userInput = <<>>
    /\ outbound = <<>>
    /\ sendAttempts = 0
    /\ resetInFlight = 0
    /\ statusFetches = <<>>
    /\ lastStatus = [data |-> [has_count |-> FALSE, memory_count |-> 0, goal |-> ""],
                     ok |-> TRUE, byEvent |-> FALSE, overlap |-> -1,
                     pass |-> FALSE]
    /\ passCounts = {}
    /\ journalFetches = <<>>

\* The channel and the status fetches its open handler starts.
NextConn ==
    \/ \E s \in 1..Len(sockets) : WsOnOpen(s)
    \/ \E s \in 1..Len(sockets) : WsOnError(s)
    \/ \E s \in 1..Len(sockets) : WsOnClose(s)
    \/ \E t \in timers : ReconnectTimerFire(t)
    \/ \E d \in StatusData : FetchStatusOk(d)
    \/ FetchStatusFail

\* What the graph synchronizer needs of a status snapshot is whether it
\* triggers a forced pass: counts 0 and 1, no goal.
StatusDataForGraph ==
    {d \in StatusData : d.has_count /\ d.memory_count <= 1 /\ d.goal = ""}

\* What the status detector needs of a graph response is that it arrives.
GraphDataForStatus == {d \in GraphData : d.nodes \subseteq {1} /\ d.edges = <<>>}

\* The poll, the views, the control requests and the graph fetches.
NextGraph ==
    \/ Poll
    \/ \E d \in StatusDataForGraph : FetchStatusOk(d)
    \/ FetchStatusFail
    \/ \E v \in Views : SwitchMainView(v)
    \/ \E c \in BOOLEAN : WipeMemory(c)
    \/ WipeResolve
    \/ WipeReject
    \/ \E f \in BOOLEAN, d \in GraphData : LoadGraphResolve(f, d)
    \/ \E f \in BOOLEAN : LoadGraphFail(f)

\* The same, with every status snapshot and the least graph responses.
NextStatus ==
    \/ Poll
    \/ \E d \in StatusData : FetchStatusOk(d)
    \/ FetchStatusFail
    \/ \E v \in Views : SwitchMainView(v)
    \/ \E c \in BOOLEAN : WipeMemory(c)
    \/ WipeResolve
    \/ WipeReject
    \/ \E f \in BOOLEAN, d \in GraphDataForStatus : LoadGraphResolve(f, d)
    \/ \E f \in BOOLEAN : LoadGraphFail(f)

\* The channel under a transport that may recover for good.  Once it has, no
\* socket fails any more: the only close events left are those of sockets
\* that had failed already.  One status body is enough here.
StatusDataForConn == {d \in StatusData : d.has_count /\ d.memory_count = 1 /\ d.goal = ""}

NextConnLive ==
    \/ \E s \in 1..Len(sockets) : WsOnOpen(s)
    \/ \E s \in 1..Len(sockets) : ~transportUp /\ WsOnError(s)
    \/ \E s \in 1..Len(sockets) :
          (transportUp => sockets[s] = "CLOSING") /\ WsOnClose(s)
    \/ \E t \in timers : ReconnectTimerFire(t)
    \/ \E d \in StatusDataForConn : FetchStatusOk(d)
    \/ FetchStatusFail
    \/ TransportRecovers

\* The n-th inbound log event of a long run: heartbeat lines and plain lines
\* in turn, each with its number.
BufferEvent(n) ==
    LogEvent(IF n % 2 = 1 THEN <<Word(n), Sp, Hb, Sp, Word(n)>> ELSE <<Word(n)>>)

\* An open channel that receives log events until both buffers have been
\* full for a while.
NextBuffers ==
    \/ \E s \in 1..Len(sockets) : WsOnOpen(s)
    \/ FetchStatusFail
    \/ /\ Len(inbound) < MaxLines
       /\ \E s \in 1..Len(sockets) : WsOnMessage(s, BufferEvent(Len(inbound) + 1))

\* What the Ether dispatcher is given: the events of every type it knows,
\* one it does not, and a payload that does not parse.
EtherPayloads ==
    {Malformed, Event("refresh_status"), Event("refresh_journal"), Event("ping"),
     ResponseEvent(<<Word(1)>>), StatusEvent("thinking"), StatusEvent("idle"),
     LogEvent(<<Word(1)>>)}
        \cup {ToolStartEvent("search", a) : a \in ArgStrings}

Delivered == Len(inbound) + Len(ether.inbound)

\* A page runs one of the two scripts: the other one has not started.
ScriptIdle == sockets = <<"CONNECTING">> /\ activeTab = "mission" /\ InFlight = 0
EtherIdle == ether.ws = "CONNECTING" /\ ether.view = "chat" /\ EtherInFlight = 0

\* Either dispatcher on an open channel, a few payloads each run.  Requests
\* started are left in flight or fail.
NextDispatch ==
    \/ EtherIdle /\ \E s \in 1..Len(sockets) : WsOnOpen(s)
    \/ /\ EtherIdle
       /\ Delivered < MaxEvents
       /\ \E s \in 1..Len(sockets), p \in Payloads : WsOnMessage(s, p)
    \/ EtherIdle /\ FetchStatusFail
    \/ EtherIdle /\ \E t \in Tabs : SwitchRightTab(t)
    \/ EtherIdle /\ LoadJournalFail
    \/ ScriptIdle /\ EtherOnOpen
    \/ /\ ScriptIdle
       /\ Delivered < MaxEvents
       /\ \E p \in EtherPayloads : EtherOnMessage(p)
    \/ ScriptIdle /\ EtherFetchStatusFail
    \/ ScriptIdle /\ \E v \in EtherViews : EtherSwitchView(v)
    \/ ScriptIdle /\ EtherFetchJournalFail

\* What the chat is sent: an answer, and a status change.
ChatPayloads == {ResponseEvent(<<Word(1)>>), StatusEvent("speaking")}

\* The chat: the channel with its losses, the input field, the send button,
\* the events the backend answers with, and the status poll.
NextChat ==
    \/ \E s \in 1..Len(sockets) : WsOnOpen(s)
    \/ \E s \in 1..Len(sockets) : WsOnError(s)
    \/ \E s \in 1..Len(sockets) : WsOnClose(s)
    \/ \E t \in timers : Len(sockets) < MaxChatSockets /\ ReconnectTimerFire(t)
    \/ \E text \in InputTexts : TypeInput(text)
    \/ SendMessage
    \/ /\ Len(inbound) < MaxChatEvents
       /\ \E s \in 1..Len(sockets), p \in ChatPayloads : WsOnMessage(s, p)
    \/ Poll
    \/ \E d \in StatusDataForConn : FetchStatusOk(d)

\* The control requests, the fetches their callbacks start, and the right
\* tabs.
NextControl ==
    \/ \E c \in BOOLEAN : WipeMemory(c)
    \/ WipeResolve
    \/ WipeReject
    \/ \E c \in BOOLEAN : FullReset(c)
    \/ ResetResolve
    \/ ResetReject
    \/ \E d \in StatusDataForConn : FetchStatusOk(d)
    \/ FetchStatusFail
    \/ \E t \in Tabs : SwitchRightTab(t)
    \/ \E d \in JournalData : LoadJournalResolve(d)
    \/ LoadJournalFail

\* The status fetches and every way they end: a snapshot, a rejection, and
\* a non-success response with a JSON body.
NextFailures ==
    \/ Poll
    \/ \E d \in StatusData : FetchStatusOk(d)
    \/ FetchStatusFail
    \/ \E b \in ErrorBodies : FetchStatusHttpError(b)
    \/ \E v \in Views : SwitchMainView(v)
    \/ \E f \in BOOLEAN, d \in GraphDataForStatus : LoadGraphResolve(f, d)
    \/ \E f \in BOOLEAN : LoadGraphFail(f)

\* The race of the poll and the refresh_status events, on a page whose
\* opening fetch has been answered: from then on every status fetch that no
\* event made is one of the poll.
NextRace ==
    \/ \E s \in 1..Len(sockets) : WsOnOpen(s)
    \/ statusSeen /\ Poll
    \/ /\ statusSeen
       /\ Len(inbound) < MaxEvents
       /\ \E s \in 1..Len(sockets) : WsOnMessage(s, Event("refresh_status"))
    \/ \E d \in StatusData : FetchStatusOk(d)
    \/ statusSeen /\ FetchStatusFail

\* The fetches of the journal and of the Ether script that resolve.
NextFeeds ==
    \/ \E d \in JournalData : LoadJournalResolve(d)
    \/ \E d \in StatusDataForConn : EtherFetchStatusOk(d)
    \/ \E d \in JournalData : EtherFetchJournalOk(d)

\* The Ether socket's own life.
NextEther ==
    \/ EtherOnClose
    \/ EtherReconnect

Next == NextConn \/ NextGraph \/ NextStatus \/ NextConnLive \/ NextBuffers
            \/ NextDispatch \/ NextFeeds \/ NextEther \/ NextChat \/ NextControl
            \/ NextFailures \/ NextRace

Spec == Init /\ [][Next]_vars
SpecConn == Init /\ [][NextConn]_vars
SpecGraph == Init /\ [][NextGraph]_vars
SpecStatus == Init /\ [][NextStatus]_vars
SpecBuffers == Init /\ [][NextBuffers]_vars
SpecDispatch == Init /\ [][NextDispatch]_vars
SpecChat == Init /\ [][NextChat]_vars
SpecControl == Init /\ [][NextControl]_vars
SpecFailures == Init /\ [][NextFailures]_vars
SpecRace == Init /\ [][NextRace]_vars

\* Fairness for the channel: a pending reconnection timer fires; a socket
\* that is CONNECTING while nothing keeps it from opening opens; the close
\* event of a failed socket is delivered; a status fetch settles.
ConnFairness ==
    /\ WF_vars(\E t \in timers : ReconnectTimerFire(t))
    /\ WF_vars(\E s \in 1..Len(sockets) : WsOnOpen(s))
    /\ WF_vars(\E s \in 1..Len(sockets) : sockets[s] = "CLOSING" /\ WsOnClose(s))
    /\ WF_vars(FetchStatusFail \/ \E d \in StatusDataForConn : FetchStatusOk(d))

SpecConnLive == Init /\ [][NextConnLive]_vars /\ ConnFairness

(***************************************************************************)
(* Connection manager: properties.                                         *)
(***************************************************************************)
\* C1: in a run of consecutive closes with no successful open in between, the
\* delay of the i-th scheduled reconnection is min(1000 * 2^(i-1), 30000).
C1_BackoffSequence ==
    \A i \in 1..Len(schedDelays) :
        schedDelays[i] = Min(BaseDelay * Pow2(i - 1), CapDelay)

\* Six closes in a row: 1000, 2000, 4000, 8000, 16000 and then the cap.
C1_Witness ==
    /\ Len(schedDelays) >= 6
    /\ SubSeq(schedDelays, 1, 4) = <<1000, 2000, 4000, 8000>>
    /\ schedDelays[6] = CapDelay

\* C2: at most one reconnection timer is pending in every reachable state, and
\* none was pending when the last connection attempt began.
C2_OneTimer ==
    /\ Cardinality(timers) <= 1
    /\ connectPending = 0

\* A timer is pending after an open, closes, an error and reconnection attempts.
C2_Witness ==
    /\ Cardinality(timers) = 1
    /\ Len(sockets) >= 3
    /\ failuresBeforeOpen >= 1
    /\ sockets[ws] = "CLOSED"

\* C3: once the channel has opened, after any number of failed attempts, the
\* delay is 1000 while it is open and the first reconnection scheduled after
\* its close uses 1000.
C3_ResetOnOpen ==
    /\ sockets[ws] = "OPEN" => reconnectDelay = BaseDelay
    /\ (failuresBeforeOpen >= 0 /\ schedDelays # <<>>) => schedDelays[1] = BaseDelay

\* The channel opened after two failed attempts and has closed again.
C3_Witness ==
    /\ failuresBeforeOpen >= 2
    /\ Len(schedDelays) = 1

(***************************************************************************)
(* Graph synchronizer: properties.                                         *)
(***************************************************************************)
\* C4: ClientGraphState never holds two nodes with the same id (the nodes
\* DataSet is keyed by id) nor two edges with the same key from|to|label.
C4_NoDuplicates == NoRepeatedKey(graphEdges)

\* C5: a forced pass whose fetched nodes and edges are all held already
\* computes empty newNodes and newEdges and leaves the graph state unchanged.
C5_ForcedIdempotent ==
    (lastPass.kind = "forced" /\ lastPass.held)
        => (lastPass.noDelta /\ ~lastPass.added)

\* A forced pass fetched nodes or edges and added nothing to a non-empty state.
C5_Witness ==
    /\ lastPass.kind = "forced"
    /\ lastPass.fetched
    /\ lastPass.held
    /\ graphNodes # {}
    /\ graphEdges # <<>>

\* C6: from the empty state the first applied fetch leaves exactly the
\* fetched set S1, and a forced pass that fetches a superset S2 of the state
\* adds exactly S2 minus the state, so the state equals S2.  S1 and S2 are
\* sets: their edges arrays repeat no key.
C6_SeedThenDelta ==
    (lastPass.kind \in {"seed", "forced"} /\ lastPass.superset)
        => /\ lastPass.exact
           /\ lastPass.kind = "forced" => (lastPass.added <=> ~lastPass.held)

\* A forced pass has added to a seeded state: two nodes and two distinct edges.
C6_Witness ==
    /\ lastPass.kind = "forced"
    /\ lastPass.superset
    /\ lastPass.added
    /\ graphNodes = {1, 2}
    /\ Len(graphEdges) = 2

\* C7: no step removes a node or an edge of ClientGraphState.
C7_Monotonic ==
    [][graphNodes \subseteq graphNodes' /\ IsPrefix(graphEdges, graphEdges')]_vars

\* A forced pass fetched the empty set and the state still holds its items.
C7_Witness ==
    /\ lastPass.kind = "forced"
    /\ ~lastPass.fetched
    /\ graphNodes # {}
    /\ graphEdges # <<>>

\* C8: a graph response applied while another graph fetch is in flight leaves
\* a state with no duplicate node id or edge key that holds every node and
\* edge of that response.
C8_ConcurrentMerge ==
    [][\A f \in BOOLEAN, d \in GraphData :
          ( /\ graphInFlight[TRUE] + graphInFlight[FALSE] >= 2
            /\ PassKind(f, d) \in {"seed", "forced"}
            /\ LoadGraphResolve(f, d) )
          => ( /\ NoRepeatedKey(graphEdges')
               /\ d.nodes \subseteq graphNodes'
               /\ Range(d.edges) \subseteq Range(graphEdges') )]_vars

(***************************************************************************)
(* Status change detector: properties.                                     *)
(***************************************************************************)
\* C9: a forced graph pass is started only by a processed status snapshot
\* whose memoryCount is strictly greater than lastMemoryCount, when a snapshot
\* was processed before it (lastMemoryCount is not -1) and the graph view is
\* active; the first snapshot starts none.
C9_RefreshOnlyOnIncrease ==
    [][graphInFlight'[TRUE] > graphInFlight[TRUE] =>
          /\ statusInFlight' = statusInFlight - 1
          /\ memoryCountText' > lastMemoryCount
          /\ statusSeen
          /\ lastMemoryCount # -1
          /\ activeView = "graph"]_vars

\* A snapshot has started a forced pass that is still in flight.
C9_Witness ==
    /\ graphInFlight[TRUE] > 0
    /\ statusSeen
    /\ lastMemoryCount > 0

\* C10: after every processed status snapshot lastMemoryCount is that
\* snapshot's memoryCount, whether it rose, stayed or fell.
C10_LastCountIsSnapshot ==
    [][(\E d \in StatusData : FetchStatusOk(d))
          => lastMemoryCount' = memoryCountText']_vars

\* C11: a processed status snapshot whose memoryCount is strictly greater
\* than that of the snapshot processed just before it starts a forced graph
\* pass when the graph view is active, also when an earlier snapshot had
\* reported a higher count.  (memoryCountText holds the count of the
\* snapshot processed last.)
C11_RefreshOnEveryIncrease ==
    [][( /\ \E d \in StatusData : FetchStatusOk(d)
         /\ statusSeen
         /\ memoryCountText' > memoryCountText
         /\ activeView = "graph" )
          => graphInFlight'[TRUE] = graphInFlight[TRUE] + 1]_vars

(***************************************************************************)
(* Bounded stream buffers: properties.                                     *)
(***************************************************************************)
\* C12: the log console never holds more than 200 lines and the thought
\* stream never more than 20 entries; an insertion into a buffer that is full
\* leaves it full (one entry in, exactly one out), and an insertion into one
\* that is not full removes nothing.
C12_BuffersBounded ==
    /\ [](Len(logConsole) <= LogCap /\ Len(thoughtStream) <= ThoughtCap)
    /\ [][ /\ Len(logHistory') = Len(logHistory) + 1 =>
                Len(logConsole') = Min(Len(logConsole) + 1, LogCap)
           /\ Len(thoughtHistory') = Len(thoughtHistory) + 1 =>
                Len(thoughtStream') = Min(Len(thoughtStream) + 1, ThoughtCap) ]_vars

\* Both buffers are full and each has had entries removed.
C12_Witness ==
    /\ Len(logConsole) = LogCap
    /\ Len(logHistory) > LogCap
    /\ Len(thoughtStream) = ThoughtCap
    /\ Len(thoughtHistory) > ThoughtCap

(***************************************************************************)
(* Connection manager: further properties.                                 *)
(***************************************************************************)
\* C13: after every close of the channel a new connection attempt is
\* eventually started, however many attempts have failed (here: as long as
\* the model may still create a socket), given that the reconnection timer
\* fires; and once the transport fails no more the channel eventually is
\* OPEN.
C13_RetryWithoutLimit ==
    /\ (sockets[ws] = "CLOSED" /\ Len(sockets) < MaxSockets)
           ~> (sockets[ws] = "CONNECTING")
    /\ (transportUp /\ Len(sockets) < MaxSockets) ~> (sockets[ws] = "OPEN")

\* The channel is open after four failed attempts in a row, the transport
\* having recovered.
C13_Witness ==
    /\ transportUp
    /\ sockets[ws] = "OPEN"
    /\ failuresBeforeOpen >= 4

\* C14: an error event changes nothing of the client but the socket's
\* readyState; every close of a socket sets the indicator to OFFLINE and
\* schedules exactly one reconnection with the current delay, leaving the
\* delay as it is; a timer is scheduled by a close only, and the delay grows
\* only when a scheduled timer fires, so an error followed by its close
\* doubles it once.
C14_CloseHandlesLoss ==
    [][ /\ (\E s \in 1..Len(sockets) :
               sockets[s] # "CLOSING" /\ sockets'[s] = "CLOSING")
            => UNCHANGED <<reconnectDelay, reconnectTimer, timers, timerSeq,
                           statusText, connectionDot, logConsole, statusVars,
                           histVars, logHistory>>
        /\ (\E s \in 1..Len(sockets) :
               sockets[s] # "CLOSED" /\ sockets'[s] = "CLOSED")
            => /\ statusText' = "OFFLINE"
               /\ timers \subseteq timers'
               /\ Cardinality(timers' \ timers) = 1
               /\ \A t \in timers' \ timers : t.delay = reconnectDelay
               /\ reconnectDelay' = reconnectDelay
        /\ timers' \ timers # {}
            => \E s \in 1..Len(sockets) :
                   sockets[s] # "CLOSED" /\ sockets'[s] = "CLOSED"
        /\ reconnectDelay' > reconnectDelay
            => /\ Cardinality(timers \ timers') = 1
               /\ reconnectDelay' = Min(2 * reconnectDelay, CapDelay) ]_vars

\* An error has been delivered on the open channel of a client that had
\* lost the channel before: still ONLINE, no timer, the delay at its base.
C14_Witness ==
    /\ Len(sockets) >= 2
    /\ sockets[ws] = "CLOSING"
    /\ statusText = "ONLINE"
    /\ timers = {}
    /\ reconnectDelay = BaseDelay

\* C15: every step in which a socket becomes OPEN, the first or a later one,
\* sets the status to ONLINE, logs the established line and starts exactly
\* one status fetch.
C15_OpenFetchesStatus ==
    [][(\E s \in 1..Len(sockets) : sockets[s] # "OPEN" /\ sockets'[s] = "OPEN")
          => /\ statusText' = "ONLINE"
             /\ connectionDot' = "status-indicator online"
             /\ logHistory' =
                    Append(logHistory, LogLine("SYSTEM: Uplink established.", 0))
             /\ statusInFlight' = statusInFlight + 1]_vars

\* The channel has opened again after a loss; the fetch of that open is in
\* flight.
C15_Witness ==
    /\ Len(sockets) >= 2
    /\ sockets[ws] = "OPEN"
    /\ failuresBeforeOpen >= 1
    /\ statusText = "ONLINE"
    /\ statusInFlight >= 1

(***************************************************************************)
(* Message dispatcher: properties.                                         *)
(***************************************************************************)
\* What the handlers of ws.onmessage write, and the rest of the client.
HandlerState ==
    <<chatWindow, statusText, logConsole, logHistory, thoughtStream,
      thoughtHistory, statusInFlight, journalInFlight>>

OtherState ==
    <<sockets, reconnectDelay, reconnectTimer, timers, timerSeq, connectionDot,
      lastMemoryCount, memoryCountText, goalTitle, activeView, graphVars,
      activeTab, journalFeed, chatVars, resetInFlight>>

\* The step delivers a payload to ws.onmessage of script.js: ScriptPayload.
ScriptReceives == Len(inbound') = Len(inbound) + 1
ScriptPayload == inbound'[Len(inbound')]

\* The same for the Ether script.
EtherReceives == Len(ether'.inbound) = Len(ether.inbound) + 1
EtherPayload == ether'.inbound[Len(ether'.inbound)]

\* C16: a payload that does not parse changes nothing: chat window, status,
\* log console, thought stream, lastMemoryCount, graph and requests in
\* flight are as before, and the socket is still open.
C16_MalformedDropped ==
    [][(ScriptReceives /\ ~ScriptPayload.parses)
          => UNCHANGED <<HandlerState, OtherState>>]_vars

\* A log event has been dispatched after a payload that did not parse.
C16_Witness ==
    /\ Len(inbound) = 2
    /\ ~inbound[1].parses
    /\ inbound[2].parses
    /\ inbound[2].type = "log"
    /\ logConsole[Len(logConsole)] = EventLine(inbound[2].content)
    /\ sockets[ws] = "OPEN"

\* The event types with a branch in ws.onmessage of script.js.
ScriptTypes == {"response", "status", "log", "refresh_status", "refresh_journal"}

\* The Ether record with the fields a handler may write taken from the next
\* state, all others as they are.
EtherWith(fields) ==
    [f \in DOMAIN ether |->
        IF f \in fields \cup {"inbound"} THEN ether'[f] ELSE ether[f]]

\* C17: dispatch runs the one handler of the event's type and nothing else.
\* In handleWsMessage of the Ether script, for each of response, status, log,
\* tool_start, refresh_status, refresh_journal only what that handler writes
\* changes, and any other type changes nothing.  In ws.onmessage of
\* script.js the same holds for the five types it has a branch for; every
\* other type, tool_start among them, changes nothing.
C17_DispatchTotal ==
    [][ /\ (ScriptReceives /\ ScriptPayload.parses) =>
              LET p == ScriptPayload
              IN  /\ UNCHANGED OtherState
                  /\ p.type = "response" =>
                        /\ chatWindow' = addMessage(chatWindow, "assistant", p.content)
                        /\ statusText' = "IDLE"
                        /\ UNCHANGED <<logConsole, logHistory, thoughtStream,
                                       thoughtHistory, statusInFlight, journalInFlight>>
                  /\ p.type = "status" =>
                        /\ statusText' = toUpperCase(p.status)
                        /\ UNCHANGED <<chatWindow, logConsole, logHistory,
                                       thoughtStream, thoughtHistory,
                                       statusInFlight, journalInFlight>>
                  /\ p.type = "log" =>
                        /\ logHistory' = Append(logHistory, EventLine(p.content))
                        /\ UNCHANGED <<chatWindow, statusText, statusInFlight,
                                       journalInFlight>>
                  /\ p.type = "refresh_status" =>
                        /\ statusInFlight' = statusInFlight + 1
                        /\ UNCHANGED <<chatWindow, statusText, logConsole,
                                       logHistory, thoughtStream, thoughtHistory,
                                       journalInFlight>>
                  /\ p.type = "refresh_journal" =>
                        /\ journalInFlight' =
                               journalInFlight + (IF activeTab = "journal" THEN 1 ELSE 0)
                        /\ UNCHANGED <<chatWindow, statusText, logConsole,
                                       logHistory, thoughtStream, thoughtHistory,
                                       statusInFlight>>
                  /\ p.type \notin ScriptTypes => UNCHANGED HandlerState
        /\ (EtherReceives /\ EtherPayload.parses) =>
              LET p == EtherPayload
                  labels == {"orb", "stateLabel", "activityLabel"}
              IN  /\ p.type = "response" =>
                        /\ ether' = EtherWith(labels \cup {"chatMessages"})
                        /\ Len(ether'.chatMessages) = Len(ether.chatMessages) + 1
                        /\ ether'.orb = "idle"
                  /\ p.type = "status" =>
                        /\ ether' = EtherWith(labels)
                        /\ ether'.orb = p.status
                  /\ p.type = "log" =>
                        /\ ether' = EtherWith({"liveStream"})
                        /\ Len(ether'.liveStream) = Len(ether.liveStream) + 1
                  /\ p.type = "tool_start" =>
                        /\ ether' = EtherWith(labels \cup {"liveStream"})
                        /\ Len(ether'.liveStream) = Len(ether.liveStream) + 1
                        /\ ether'.orb = "thinking"
                  /\ p.type = "refresh_status" =>
                        /\ ether' = EtherWith({"statusInFlight"})
                        /\ ether'.statusInFlight = ether.statusInFlight + 1
                  /\ p.type = "refresh_journal" =>
                        /\ ether' = EtherWith({"journalInFlight"})
                        /\ ether'.journalInFlight = ether.journalInFlight
                               + (IF ether.view = "journal" THEN 1 ELSE 0)
                  /\ p.type \notin ScriptTypes \cup {"tool_start"} =>
                        ether' = EtherWith({}) ]_vars

\* The Ether script has been given a tool_start event and one of a type it
\* does not know: the tool_start handler has run, and only it.
C17_Witness ==
    /\ Len(ether.inbound) = 2
    /\ ether.inbound[1].type = "tool_start"
    /\ ether.inbound[2].type = "ping"
    /\ ether.orb = "thinking"
    /\ Len(ether.liveStream) = 2
    /\ ether.chatMessages = <<>>
    /\ EtherInFlight = 1

\* C18: the log console holds the most recent min(k, 200) of the k lines
\* appended so far, oldest first, in the order they were appended; the lines
\* of inbound log events are in the order the events arrived.
C18_LogOrder ==
    LET k == Len(logHistory)
        logEvents == SelectSeq(inbound, LAMBDA p : p.parses /\ p.type = "log")
    IN  /\ logConsole = SubSeq(logHistory, k - Min(k, LogCap) + 1, k)
        /\ SelectSeq(logHistory, LAMBDA l : l.text = "")
               = [i \in 1..Len(logEvents) |-> EventLine(logEvents[i].content)]

\* Lines have been evicted: the console is full and begins with the line of
\* a log event that was not the first line appended.
C18_Witness ==
    /\ Len(logHistory) >= LogCap + 3
    /\ Len(logConsole) = LogCap
    /\ logConsole[1] = logHistory[Len(logHistory) - LogCap + 1]
    /\ logConsole[1].text = ""
    /\ logHistory[1].text # ""

\* The text after the heartbeat marker, "Autonomy:" taken as part of the
\* marker as the pattern of the code does, trimmed.
AfterMarker(c) == Trim(SubSeq(c, MatchEnd(c), Len(c)))

\* C19: every log event appends exactly one line to the log console and
\* inserts one entry into the thought stream if and only if its text holds
\* the heartbeat marker and the text after the marker is not empty once
\* trimmed; otherwise the thought stream is unchanged.
C19_ThoughtIffMarker ==
    [][(ScriptReceives /\ ScriptPayload.parses /\ ScriptPayload.type = "log") =>
          LET c == ScriptPayload.content
              expected == Includes(c, Hb) /\ AfterMarker(c) # <<>>
          IN  /\ logHistory' = Append(logHistory, EventLine(c))
              /\ logConsole' = addLog(logConsole, EventLine(c))
              /\ expected =>
                    /\ Len(thoughtHistory') = Len(thoughtHistory) + 1
                    /\ Len(thoughtStream') = Len(thoughtStream) + 1
              /\ ~expected => UNCHANGED <<thoughtStream, thoughtHistory>>]_vars

\* C20: a tool_start event sets the orb to thinking and puts exactly one
\* line into the live stream: the tool name and the first 30 characters of
\* the serialized arguments, with "..." exactly when they are longer than 30.
C20_ToolStartLine ==
    [][(EtherReceives /\ EtherPayload.parses /\ EtherPayload.type = "tool_start") =>
          LET p == EtherPayload
              serialized == JsonStringify(p.args)
              line == ether'.liveStream[1]
          IN  /\ ether'.orb = "thinking"
              /\ Tail(ether'.liveStream) = ether.liveStream
              /\ line.type = "tool"
              /\ line.tool = p.tool
              /\ line.preview = SubSeq(serialized, 1, Min(Len(serialized), PreviewLen))
              /\ line.ellipsis <=> Len(serialized) > PreviewLen]_vars

\* Two tool lines: the older shows serialized arguments of exactly 30
\* characters in full, the newer the first 30 of more, followed by "...".
C20_Witness ==
    /\ Len(ether.liveStream) = 3
    /\ ether.liveStream[1].type = "tool"
    /\ ether.liveStream[1].ellipsis
    /\ Len(ether.liveStream[1].preview) = PreviewLen
    /\ ether.liveStream[2].type = "tool"
    /\ ~ether.liveStream[2].ellipsis
    /\ Len(ether.liveStream[2].preview) = PreviewLen
    /\ ether.orb = "thinking"

(***************************************************************************)
(* Bounded buffers, input and control requests: properties.                *)
(***************************************************************************)
\* The step calls addThought, and the text it passes.
ThoughtAdded == Len(thoughtHistory') > Len(thoughtHistory)
NewThought == thoughtHistory'[Len(thoughtHistory')]

\* C21 as stated: a thought is inserted at the front, and an insertion into a
\* full thought buffer evicts the newest entry held (the first child).
C21_EvictsNewest ==
    [][ThoughtAdded =>
            IF Len(thoughtStream) = ThoughtCap
            THEN thoughtStream' = <<NewThought>> \o Tail(thoughtStream)
            ELSE thoughtStream' = <<NewThought>> \o thoughtStream]_vars

\* C21 amended: a thought is inserted at the front, and an insertion into a
\* full thought buffer evicts the oldest entry held (the last child).
C21_EvictsOldest ==
    [][ThoughtAdded =>
            IF Len(thoughtStream) = ThoughtCap
            THEN thoughtStream' =
                     <<NewThought>> \o SubSeq(thoughtStream, 1, ThoughtCap - 1)
            ELSE thoughtStream' = <<NewThought>> \o thoughtStream]_vars

\* A full thought buffer after an eviction: the last thought is in front, the
\* first thought ever added is gone, the second one is the last child.
C21_Witness ==
    /\ Len(thoughtHistory) = ThoughtCap + 1
    /\ Len(thoughtStream) = ThoughtCap
    /\ thoughtStream[1] = thoughtHistory[ThoughtCap + 1]
    /\ thoughtStream[ThoughtCap] = thoughtHistory[2]
    /\ thoughtHistory[1] \notin Range(thoughtStream)

\* The step is a call of sendMessage.
SendCalled == sendAttempts' = sendAttempts + 1

\* C22: a call of sendMessage with an input that is empty once trimmed, or
\* with a channel that is not OPEN, transmits nothing, adds nothing to the
\* transcript and leaves the status indicator and the input text as they
\* were; with a non-empty text and a channel not OPEN it appends the notice
\* line to the log, with an empty text it logs nothing.
C22_SendRefused ==
    [][(SendCalled /\ (Trim(userInput) = <<>> \/ sockets[ws] # "OPEN"))
          => /\ UNCHANGED <<outbound, chatWindow, statusText, userInput>>
             /\ IF Trim(userInput) # <<>>
                THEN /\ logConsole' = addLog(logConsole, CannotSend)
                     /\ logHistory' = Append(logHistory, CannotSend)
                ELSE UNCHANGED <<logConsole, logHistory>>]_vars

\* Two calls have been refused, one for its blank text and one for the
\* channel: one notice is in the log, nothing was sent, and the blank input
\* is still there.
C22_Witness ==
    /\ sendAttempts = 2
    /\ outbound = <<>>
    /\ chatWindow = <<>>
    /\ userInput = <<Sp>>
    /\ Cardinality({i \in 1..Len(logHistory) : logHistory[i] = CannotSend}) = 1
    /\ logConsole[Len(logConsole)] = CannotSend

\* C23: a step that issues the request to /api/memory/clear or to /api/reset
\* is the step of wipeMemory or of fullReset in which confirm() answered true;
\* the step in which confirm() answers false issues no request and changes no
\* state of the client.
C23_ConfirmBeforeRequest ==
    [][/\ wipeInFlight' > wipeInFlight => WipeMemory(TRUE)
       /\ resetInFlight' > resetInFlight => FullReset(TRUE)
       /\ (WipeMemory(FALSE) \/ FullReset(FALSE)) => UNCHANGED vars]_vars

\* Both requests have been confirmed and issued, and neither has been
\* answered.
C23_Witness ==
    /\ wipeInFlight = 1
    /\ resetInFlight = 1
    /\ statusInFlight = 0
    /\ journalInFlight = 0

(***************************************************************************)
(* Status fetches: properties.                                             *)
(***************************************************************************)
\* The step ends a status request in failure: the request settles and no
\* response is applied, or the response applied is a non-success one.
StatusFailed ==
    /\ statusInFlight' = statusInFlight - 1
    /\ \/ lastStatus' = lastStatus /\ statusSeen' = statusSeen
       \/ ~lastStatus'.ok

\* C24: when a status request fails, by a network error or by a non-success
\* response, the displayed memory count, the goal with its subtasks and
\* lastMemoryCount keep their values and no forced graph pass is started.
C24_FailureKeepsState ==
    [][StatusFailed
          => UNCHANGED <<memoryCountText, goalTitle, lastMemoryCount,
                         graphInFlight>>]_vars

\* C25: status fetches in flight together, whatever made them, are neither
\* cancelled nor coalesced (a call adds one fetch and keeps the others, a
\* settling removes one), and after each response the displayed memory count
\* and goal are those of that response: of two fetches in flight together
\* the one answered later decides what is shown.
C25_LastResponseShown ==
    /\ [](/\ statusInFlight = Len(statusFetches)
          /\ statusSeen => /\ memoryCountText = CountOf(lastStatus.data)
                           /\ goalTitle = GoalTitleOf(lastStatus.data))
    /\ [][/\ Len(statusFetches') > Len(statusFetches)
              => \E e \in BOOLEAN :
                     statusFetches' = Append(statusFetches, StatusFetch(e))
          /\ Len(statusFetches') < Len(statusFetches)
              => \E i \in 1..Len(statusFetches) :
                     \A j \in 1..Len(statusFetches') :
                         statusFetches'[j].byEvent
                             = RemoveAt(statusFetches, i)[j].byEvent]_vars

\* A fetch of the poll and a fetch of a refresh_status event were in flight
\* together; the event's response, reporting count 1, was applied first and
\* the poll's response, reporting the older count 0, after it: count 0 is
\* shown, and both have been applied (lastMemoryCount holds the 1).
C25_Witness ==
    /\ statusFetches = <<>>
    /\ ~lastStatus.byEvent
    /\ lastStatus.overlap = 1
    /\ lastStatus.data = [has_count |-> TRUE, memory_count |-> 0, goal |-> ""]
    /\ memoryCountText = 0
    /\ goalTitle = "No active goal"
    /\ lastMemoryCount = 1

(***************************************************************************)
(* Journal, channel and graph: properties.                                 *)
(***************************************************************************)
\* C26: a refresh_journal event starts a journal fetch exactly when the
\* journal tab is the active one as the event is dispatched; when it is not,
\* no request is issued and nothing changes; when it is, nothing else
\* changes.
C26_LazyJournalRefresh ==
    [][(ScriptReceives /\ ScriptPayload.parses
           /\ ScriptPayload.type = "refresh_journal")
          => /\ IF activeTab = "journal"
                THEN /\ journalInFlight' = journalInFlight + 1
                     /\ journalFetches' = Append(journalFetches, TRUE)
                ELSE UNCHANGED <<journalInFlight, journalFetches>>
             /\ UNCHANGED <<chatWindow, statusText, logConsole, logHistory,
                            thoughtStream, thoughtHistory, statusInFlight,
                            statusFetches, journalFeed, OtherState>>]_vars

\* Two refresh_journal events have been dispatched; the fetch that the
\* switch to the journal tab started is in flight, and so is one that an
\* event started when it found that tab active.
C26_Witness ==
    /\ Len(inbound) = 2
    /\ \A i \in 1..2 : inbound[i].parses /\ inbound[i].type = "refresh_journal"
    /\ activeTab = "journal"
    /\ journalFetches = <<FALSE, TRUE>>
    /\ journalInFlight = 2

\* The sockets that are not CLOSED.
Live == {s \in 1..Len(sockets) : sockets[s] # "CLOSED"}

\* C27: at most one socket is not CLOSED, and it is the one ws names; a
\* socket is created only by the step that fires a reconnection timer, when
\* the socket ws named was CLOSED.
C27_OneChannel ==
    /\ [](Cardinality(Live) <= 1 /\ Live \subseteq {ws})
    /\ [][Len(sockets') # Len(sockets)
              => /\ sockets[ws] = "CLOSED"
                 /\ sockets' = Append(sockets, "CONNECTING")
                 /\ \E t \in timers : timers' = timers \ {t}]_vars

\* The third socket is open and the two before it are closed.
C27_Witness ==
    /\ Len(sockets) = 3
    /\ sockets = <<"CLOSED", "CLOSED", "OPEN">>
    /\ timers = {}

\* C28: while the socket ws names is CLOSED the status indicator reads
\* OFFLINE; the only step that replaces OFFLINE is the open handler of a
\* CONNECTING socket; and no step taken while that socket is not OPEN
\* transmits a text, adds to the transcript or dispatches an inbound payload.
C28_OfflineUntilOpen ==
    /\ [](sockets[ws] = "CLOSED" => statusText = "OFFLINE")
    /\ [][(statusText = "OFFLINE" /\ statusText' # "OFFLINE")
              => /\ sockets[ws] = "CONNECTING"
                 /\ sockets' = [sockets EXCEPT ![ws] = "OPEN"]]_vars
    /\ [][sockets[ws] # "OPEN"
              => UNCHANGED <<outbound, chatWindow, inbound>>]_vars

\* After a text was sent the channel closed, the timer fired, and a second
\* call of sendMessage with a text was refused while the new socket was
\* connecting: the indicator still reads OFFLINE.
C28_Witness ==
    /\ sockets = <<"CLOSED", "CONNECTING">>
    /\ Len(outbound) = 1
    /\ sendAttempts = 2
    /\ logHistory[Len(logHistory)] = CannotSend
    /\ statusText = "OFFLINE"

\* C29: once the graph is seeded, the step that consumes the response of a
\* non-forced loadGraph leaves the nodes, the edges and the network as they
\* were, whatever the response holds, and every step that changes the nodes
\* or the edges consumes the response of a forced loadGraph.
C29_PlainPassDrops ==
    [][network
          => /\ graphInFlight'[FALSE] < graphInFlight[FALSE]
                    => UNCHANGED <<graphNodes, graphEdges, network>>
             /\ <<graphNodes, graphEdges>>' # <<graphNodes, graphEdges>>
                    => graphInFlight'[TRUE] < graphInFlight[TRUE]]_vars

\* The last response processed was that of a non-forced loadGraph on a
\* seeded graph, and it held a node or an edge the client does not hold.
C29_Witness ==
    /\ network
    /\ lastPass = DroppedRecord
    /\ graphNodes # {}

====
